---- MODULE Spec2Model ----
(***************************************************************************)
(* State-machine model of the ST B-L475E-IOT01A sockets wrapper            *)
(* (sockets_wrapper_stm32l475.c): the socket table xSockets, the WiFi      *)
(* semaphore xWifiSemaphoreHandle, and the public operations               *)
(* Sockets_Open/Close/Connect/Disconnect/Recv/Send/SetSockOpt executed by  *)
(* concurrently running FreeRTOS tasks.  Every statement that reads or     *)
(* writes shared state is one step of the calling task; the bodies of      *)
(* taskENTER_CRITICAL/taskEXIT_CRITICAL sections are single steps, and so  *)
(* are consecutive stores of one task to the fields of one slot.           *)
(***************************************************************************)
EXTENDS Integers, Sequences, FiniteSets, TLC

(* ------------------------------------------------------------------ *)
(* Program constants                                                    *)
(* ------------------------------------------------------------------ *)
wificonfigMAX_SOCKETS == 4
socketsconfigDEFAULT_SEND_TIMEOUT == 10000
socketsconfigDEFAULT_RECV_TIMEOUT == 10000
\* pdMS_TO_TICKS( 5 ) at a tick rate of 1 kHz: times of the model are in ticks.
stsecuresocketsFIVE_MILLISECONDS == 5
stsecuresocketsONE_MILLISECOND == 1

\* ( uint32_t ) SOCKETS_INVALID_SOCKET is 2^32 - 1; the largest integer TLC handles
\* stands for it (the code only compares it with wificonfigMAX_SOCKETS).
SOCKETS_INVALID_SOCKET == 2147483647

SOCKETS_ERROR_NONE == 0
SOCKETS_SOCKET_ERROR == -1
SOCKETS_ENOMEM == -12
SOCKETS_EINVAL == -22
SOCKETS_ENOPROTOOPT == -109
SOCKETS_PERIPHERAL_RESET == -1006

stsecuresocketsSOCKET_SECURE_FLAG == "SECURE"
stsecuresocketsSOCKET_READ_CLOSED_FLAG == "READ_CLOSED"
stsecuresocketsSOCKET_WRITE_CLOSED_FLAG == "WRITE_CLOSED"
stsecuresocketsSOCKET_IS_CONNECTED_FLAG == "IS_CONNECTED"

WIFI_STATUS_OK == "WIFI_STATUS_OK"
WIFI_STATUS_ERROR == "WIFI_STATUS_ERROR"
WIFI_STATUS_TIMEOUT == "WIFI_STATUS_TIMEOUT"
WIFI_Status_t == {WIFI_STATUS_OK, WIFI_STATUS_ERROR, WIFI_STATUS_TIMEOUT}

SOCKETS_SO_RCVTIMEO == "SOCKETS_SO_RCVTIMEO"
SOCKETS_SO_SNDTIMEO == "SOCKETS_SO_SNDTIMEO"
SOCKETS_SO_OTHER == "SOCKETS_SO_OTHER"

(* ------------------------------------------------------------------ *)
(* Bounds of the model                                                  *)
(* ------------------------------------------------------------------ *)
NumTasks == 2          \* tasks of the concurrent specification
MaxHeld == 1           \* handles a task of the concurrent specification keeps open
ExtraOpeners == 1      \* k of the N+k concurrent openers
MaxOpens == 6          \* Open calls recorded by the sequential specification
MaxBytes == 1          \* largest byte count the driver reports
MaxRecvTimeout == 6    \* the non-default timeout value given to SetSockOpt, in ticks
SeqMaxHeld == 2        \* handles the caller of the sequential specification keeps open
\* The largest payload of one transfer of the WiFi module. The driver's header that
\* defines it is not part of this repository: the model takes a small value.
ES_WIFI_PAYLOAD_SIZE == 3
\* The number of values of TickType_t, the unsigned type of the tick count. The port
\* header that defines it is not part of this repository: the model takes a small
\* range, so that the tick count wraps around within a run.
TickModulus == 32
MaxPolls == 2          \* the model counts the polls of one Sockets_Recv up to this

Slots == 0 .. (wificonfigMAX_SOCKETS - 1)
NoTask == 0
Tasks == 1 .. NumTasks
Openers == 1 .. (wificonfigMAX_SOCKETS + ExtraOpeners)
OptionValues == {0, MaxRecvTimeout}
TimeoutValues == {0, socketsconfigDEFAULT_RECV_TIMEOUT}
\* Buffer lengths given to Sockets_Recv: up to and past the payload size, and one
\* that does not fit 16 bits.
BufferLengths == (0 .. (ES_WIFI_PAYLOAD_SIZE + 1)) \cup {65536 + 1}

VARIABLES
    xSockets,              \* [Slots -> STSecureSocket_t]
    xWifiSemaphoreHandle,  \* the task holding the WiFi semaphore, or NoTask
    task,                  \* per task: position in its call and the call's locals
    owned,                 \* per task: handles its Open returned and it has not closed
    hist,                  \* one caller: the results of Open since the table was initialised
    snap,                  \* one caller: the last call and xSockets when it began,
                           \* or the buffer length given to the current Sockets_Recv
    elapsed,               \* timed runs: ticks since the receiver entered Sockets_Recv
    waited                 \* timed runs: ticks the receiver has spent in its current blocking call

vars == <<xSockets, xWifiSemaphoreHandle, task, owned, hist, snap, elapsed, waited>>
ghostSeq == <<hist, snap>>
ghostTime == <<elapsed, waited>>

(* ------------------------------------------------------------------ *)
(* Construction                                                         *)
(* ------------------------------------------------------------------ *)
\* One slot as Sockets_Init leaves it; the timeouts of the static array are zero.
InitSocket ==
    [ ucInUse |-> 0,
      ulFlags |-> {stsecuresocketsSOCKET_READ_CLOSED_FLAG,
                   stsecuresocketsSOCKET_WRITE_CLOSED_FLAG},
      ulSendTimeout |-> 0,
      ulReceiveTimeout |-> 0 ]

IdleTask ==
    [ pc |-> "idle", op |-> "none", ulSocketNumber |-> 0, ulIndex |-> 0,
      xWiFiResult |-> WIFI_STATUS_OK, usReceivedBytes |-> 0, xRetVal |-> 0,
      ulIPAddres |-> 0, xSemaphoreWait |-> 0,
      xReceiveBufferLength |-> 0, ulTimeout |-> 0 ]

TaskIds == DOMAIN task

\* A call begins: the locals get the values of their C initialisers.
Enter(t, o, h, l) ==
    task' = [task EXCEPT ![t] = [IdleTask EXCEPT !.pc = l, !.op = o,
                                                 !.ulSocketNumber = h]]

\* A call returns v: its locals die; the caller knows what it called and what came back.
Return(t, v) ==
    task' = [task EXCEPT ![t] = [IdleTask EXCEPT !.op = task[t].op, !.xRetVal = v]]

Goto(t, l) == task' = [task EXCEPT ![t].pc = l]

At(t, l) == task[t].pc = l

(* ------------------------------------------------------------------ *)
(* The WiFi semaphore                                                   *)
(* ------------------------------------------------------------------ *)
\* xSemaphoreTake returning pdTRUE: possible when no task holds the semaphore.
SemaphoreAvailable(t) == xWifiSemaphoreHandle = NoTask

\* xSemaphoreTake returning pdFALSE after its block time: the semaphore stayed taken.
SemaphoreTimedOut(t) == xWifiSemaphoreHandle \notin {NoTask, t}

xSemaphoreTake(t) == xWifiSemaphoreHandle' = t

xSemaphoreGive(t) == xWifiSemaphoreHandle' = NoTask

(* ------------------------------------------------------------------ *)
(* Socket table helpers                                                 *)
(* ------------------------------------------------------------------ *)
prvIsValidSocket(ulSocketNumber) ==
    /\ ulSocketNumber < wificonfigMAX_SOCKETS
    /\ xSockets[ulSocketNumber].ucInUse = 1

\* A scan that takes every slot it looks at for free.
SlotIsFree_Always(ulIndex) == TRUE

\* The test of one iteration of prvGetFreeSocket, inside its critical section.
SlotIsFree(ulIndex) == xSockets[ulIndex].ucInUse = 0

\* The handles a caller may pass: the ones it holds, or the invalid handle.
CallerHandles(t) == owned[t] \cup {SOCKETS_INVALID_SOCKET}

(* ------------------------------------------------------------------ *)
(* Sockets_Open                                                         *)
(* ------------------------------------------------------------------ *)
CallOpen(t) ==
    /\ At(t, "idle")
    /\ Enter(t, "Open", 0, "open_scan")
    /\ UNCHANGED <<xSockets, xWifiSemaphoreHandle, owned>>

\* One iteration of the loop of prvGetFreeSocket: the critical section at index ulIndex.
GetFreeSocketTake(t) ==
    /\ At(t, "open_scan")
    /\ SlotIsFree(task[t].ulIndex)
    /\ xSockets' = [xSockets EXCEPT ![task[t].ulIndex].ucInUse = 1]
    /\ task' = [task EXCEPT ![t].pc = "open_valid",
                            ![t].ulSocketNumber = task[t].ulIndex]
    /\ UNCHANGED <<xWifiSemaphoreHandle, owned>>

\* A scan that gives up at the first slot it finds in use.
GetFreeSocketSkip_GiveUp(t) ==
    /\ At(t, "open_scan")
    /\ ~SlotIsFree(task[t].ulIndex)
    /\ task' = [task EXCEPT ![t].pc = "open_valid",
                            ![t].ulIndex = wificonfigMAX_SOCKETS,
                            ![t].ulSocketNumber = SOCKETS_INVALID_SOCKET]
    /\ UNCHANGED <<xSockets, xWifiSemaphoreHandle, owned>>

GetFreeSocketSkip(t) ==
    /\ At(t, "open_scan")
    /\ ~SlotIsFree(task[t].ulIndex)
    /\ IF task[t].ulIndex + 1 < wificonfigMAX_SOCKETS
         THEN task' = [task EXCEPT ![t].ulIndex = task[t].ulIndex + 1]
         ELSE task' = [task EXCEPT ![t].pc = "open_valid",
                                   ![t].ulIndex = wificonfigMAX_SOCKETS,
                                   ![t].ulSocketNumber = SOCKETS_INVALID_SOCKET]
    /\ UNCHANGED <<xSockets, xWifiSemaphoreHandle, owned>>

\* The handle Open returns without touching the slot: not valid at line 262.
OpenResult(t) == task[t].ulSocketNumber

OpenInvalid(t) ==
    /\ At(t, "open_valid")
    /\ ~prvIsValidSocket(task[t].ulSocketNumber)
    /\ Return(t, OpenResult(t))
    /\ owned' = [owned EXCEPT ![t] = IF OpenResult(t) = SOCKETS_INVALID_SOCKET
                                       THEN @ ELSE @ \cup {OpenResult(t)}]
    /\ UNCHANGED <<xSockets, xWifiSemaphoreHandle>>

OpenValid(t) ==
    /\ At(t, "open_valid")
    /\ prvIsValidSocket(task[t].ulSocketNumber)
    /\ Goto(t, "open_flags")
    /\ UNCHANGED <<xSockets, xWifiSemaphoreHandle, owned>>

\* An Open that leaves the new socket marked closed in both directions.
OpenInitialFlags_Closed ==
    {stsecuresocketsSOCKET_SECURE_FLAG,
     stsecuresocketsSOCKET_READ_CLOSED_FLAG,
     stsecuresocketsSOCKET_WRITE_CLOSED_FLAG}

OpenInitialFlags == {stsecuresocketsSOCKET_SECURE_FLAG}

\* An Open that keeps the timeouts it finds in the slot.
OpenInitSocket_KeepTimeouts(t) ==
    /\ At(t, "open_flags")
    /\ xSockets' = [xSockets EXCEPT ![task[t].ulSocketNumber].ulFlags = OpenInitialFlags]
    /\ Return(t, OpenResult(t))
    /\ owned' = [owned EXCEPT ![t] = @ \cup {OpenResult(t)}]
    /\ UNCHANGED xWifiSemaphoreHandle

OpenInitSocket(t) ==
    /\ At(t, "open_flags")
    /\ xSockets' = [xSockets EXCEPT ![task[t].ulSocketNumber].ulFlags = OpenInitialFlags,
                                    ![task[t].ulSocketNumber].ulSendTimeout = socketsconfigDEFAULT_SEND_TIMEOUT,
                                    ![task[t].ulSocketNumber].ulReceiveTimeout = socketsconfigDEFAULT_RECV_TIMEOUT]
    /\ Return(t, OpenResult(t))
    /\ owned' = [owned EXCEPT ![t] = @ \cup {OpenResult(t)}]
    /\ UNCHANGED xWifiSemaphoreHandle

(* ------------------------------------------------------------------ *)
(* Sockets_Close                                                        *)
(* ------------------------------------------------------------------ *)
CallClose(t, h) ==
    /\ At(t, "idle")
    /\ Enter(t, "Close", h, "close_valid")
    /\ UNCHANGED <<xSockets, xWifiSemaphoreHandle, owned>>

CloseInvalid(t) ==
    /\ At(t, "close_valid")
    /\ ~prvIsValidSocket(task[t].ulSocketNumber)
    /\ Return(t, SOCKETS_ERROR_NONE)
    /\ owned' = [owned EXCEPT ![t] = @ \ {task[t].ulSocketNumber}]
    /\ UNCHANGED <<xSockets, xWifiSemaphoreHandle>>

CloseValid(t) ==
    /\ At(t, "close_valid")
    /\ prvIsValidSocket(task[t].ulSocketNumber)
    /\ Goto(t, "close_return")
    /\ UNCHANGED <<xSockets, xWifiSemaphoreHandle, owned>>

\* A Close that also marks the slot closed, as Sockets_Init leaves it.
CloseReturnSocket_ResetFlags(t) ==
    /\ At(t, "close_return")
    /\ xSockets' = [xSockets EXCEPT ![task[t].ulSocketNumber].ucInUse = 0,
                                    ![task[t].ulSocketNumber].ulFlags =
                                        {stsecuresocketsSOCKET_READ_CLOSED_FLAG,
                                         stsecuresocketsSOCKET_WRITE_CLOSED_FLAG}]
    /\ Return(t, SOCKETS_ERROR_NONE)
    /\ owned' = [owned EXCEPT ![t] = @ \ {task[t].ulSocketNumber}]
    /\ UNCHANGED xWifiSemaphoreHandle

\* prvReturnSocket, then the return of Sockets_Close.
CloseReturnSocket(t) ==
    /\ At(t, "close_return")
    /\ xSockets' = [xSockets EXCEPT ![task[t].ulSocketNumber].ucInUse = 0]
    /\ Return(t, SOCKETS_ERROR_NONE)
    /\ owned' = [owned EXCEPT ![t] = @ \ {task[t].ulSocketNumber}]
    /\ UNCHANGED xWifiSemaphoreHandle

(* ------------------------------------------------------------------ *)
(* Sockets_Connect and prvGetHostByName                                 *)
(* ------------------------------------------------------------------ *)
CallConnect(t, h) ==
    /\ At(t, "idle")
    /\ Enter(t, "Connect", h, "conn_valid")
    /\ UNCHANGED <<xSockets, xWifiSemaphoreHandle, owned>>

ConnectInvalid(t) ==
    /\ At(t, "conn_valid")
    /\ ~prvIsValidSocket(task[t].ulSocketNumber)
    /\ Return(t, SOCKETS_ENOMEM)
    /\ UNCHANGED <<xSockets, xWifiSemaphoreHandle, owned>>

ConnectValid(t) ==
    /\ At(t, "conn_valid")
    /\ prvIsValidSocket(task[t].ulSocketNumber)
    /\ Goto(t, "gethost_take")
    /\ UNCHANGED <<xSockets, xWifiSemaphoreHandle, owned>>

GetHostTake(t) ==
    /\ At(t, "gethost_take")
    /\ SemaphoreAvailable(t)
    /\ xSemaphoreTake(t)
    /\ Goto(t, "gethost_call")
    /\ UNCHANGED <<xSockets, owned>>

\* The semaphore is not obtained: prvGetHostByName returns 0, Connect the socket error.
GetHostTakeFail(t) ==
    /\ At(t, "gethost_take")
    /\ SemaphoreTimedOut(t)
    /\ Return(t, SOCKETS_SOCKET_ERROR)
    /\ UNCHANGED <<xSockets, xWifiSemaphoreHandle, owned>>

\* WIFI_GetHostAddress returns: addr is the address it stored (0 when the lookup failed).
WIFI_GetHostAddress(t, st, addr) ==
    /\ At(t, "gethost_call")
    /\ task' = [task EXCEPT ![t].pc = "gethost_give",
                            ![t].ulIPAddres = IF st # WIFI_STATUS_OK THEN 0 ELSE addr]
    /\ UNCHANGED <<xSockets, xWifiSemaphoreHandle, owned>>

\* A Connect that goes on to the connection whatever the lookup gave.
GetHostGive_IgnoreFailure(t) ==
    /\ At(t, "gethost_give")
    /\ xSemaphoreGive(t)
    /\ Goto(t, "conn_take")
    /\ UNCHANGED <<xSockets, owned>>

GetHostGive(t) ==
    /\ At(t, "gethost_give")
    /\ xSemaphoreGive(t)
    /\ IF task[t].ulIPAddres = 0
         THEN Return(t, SOCKETS_SOCKET_ERROR)
         ELSE Goto(t, "conn_take")
    /\ UNCHANGED <<xSockets, owned>>

ConnectTake(t) ==
    /\ At(t, "conn_take")
    /\ SemaphoreAvailable(t)
    /\ xSemaphoreTake(t)
    /\ Goto(t, "conn_call")
    /\ UNCHANGED <<xSockets, owned>>

ConnectTakeFail(t) ==
    /\ At(t, "conn_take")
    /\ SemaphoreTimedOut(t)
    /\ Return(t, SOCKETS_SOCKET_ERROR)
    /\ UNCHANGED <<xSockets, xWifiSemaphoreHandle, owned>>

\* A Connect that returns at once, the semaphore still taken, when the connection fails.
WIFI_OpenClientConnection_EarlyReturn(t, st) ==
    /\ At(t, "conn_call")
    /\ IF st = WIFI_STATUS_OK
         THEN task' = [task EXCEPT ![t].pc = "conn_flag", ![t].xRetVal = SOCKETS_ERROR_NONE]
         ELSE Return(t, SOCKETS_SOCKET_ERROR)
    /\ UNCHANGED <<xSockets, xWifiSemaphoreHandle, owned>>

\* WIFI_OpenClientConnection returns st.
WIFI_OpenClientConnection(t, st) ==
    /\ At(t, "conn_call")
    /\ IF st = WIFI_STATUS_OK
         THEN task' = [task EXCEPT ![t].pc = "conn_flag", ![t].xRetVal = SOCKETS_ERROR_NONE]
         ELSE task' = [task EXCEPT ![t].pc = "conn_give", ![t].xRetVal = SOCKETS_SOCKET_ERROR]
    /\ UNCHANGED <<xSockets, xWifiSemaphoreHandle, owned>>

ConnectSetFlag(t) ==
    /\ At(t, "conn_flag")
    /\ xSockets' = [xSockets EXCEPT ![task[t].ulSocketNumber].ulFlags =
                                        @ \cup {stsecuresocketsSOCKET_IS_CONNECTED_FLAG}]
    /\ Goto(t, "conn_give")
    /\ UNCHANGED <<xWifiSemaphoreHandle, owned>>

ConnectGive(t) ==
    /\ At(t, "conn_give")
    /\ xSemaphoreGive(t)
    /\ Return(t, task[t].xRetVal)
    /\ UNCHANGED <<xSockets, owned>>

(* ------------------------------------------------------------------ *)
(* Sockets_Disconnect                                                   *)
(* ------------------------------------------------------------------ *)
CallDisconnect(t, h) ==
    /\ At(t, "idle")
    /\ Enter(t, "Disconnect", h, "disc_valid")
    /\ UNCHANGED <<xSockets, xWifiSemaphoreHandle, owned>>

\* Sockets_Disconnect returns nothing: xRetVal keeps the 0 it has since the call began.
DisconnectInvalid(t) ==
    /\ At(t, "disc_valid")
    /\ ~prvIsValidSocket(task[t].ulSocketNumber)
    /\ Return(t, task[t].xRetVal)
    /\ owned' = [owned EXCEPT ![t] = @ \ {task[t].ulSocketNumber}]
    /\ UNCHANGED <<xSockets, xWifiSemaphoreHandle>>

DisconnectValid(t) ==
    /\ At(t, "disc_valid")
    /\ prvIsValidSocket(task[t].ulSocketNumber)
    /\ Goto(t, "disc_rc")
    /\ UNCHANGED <<xSockets, xWifiSemaphoreHandle, owned>>

DisconnectMarkClosed(t) ==
    /\ At(t, "disc_rc")
    /\ xSockets' = [xSockets EXCEPT ![task[t].ulSocketNumber].ulFlags =
                                        @ \cup {stsecuresocketsSOCKET_READ_CLOSED_FLAG,
                                                stsecuresocketsSOCKET_WRITE_CLOSED_FLAG}]
    /\ Goto(t, "disc_take")
    /\ UNCHANGED <<xWifiSemaphoreHandle, owned>>

DisconnectTake(t) ==
    /\ At(t, "disc_take")
    /\ SemaphoreAvailable(t)
    /\ xSemaphoreTake(t)
    /\ Goto(t, "disc_call")
    /\ UNCHANGED <<xSockets, owned>>

\* A Disconnect that gives up, the slot still in use, when the semaphore is not obtained.
DisconnectTakeFail_KeepSlot(t) ==
    /\ At(t, "disc_take")
    /\ SemaphoreTimedOut(t)
    /\ Return(t, task[t].xRetVal)
    /\ UNCHANGED <<xSockets, xWifiSemaphoreHandle, owned>>

DisconnectTakeFail(t) ==
    /\ At(t, "disc_take")
    /\ SemaphoreTimedOut(t)
    /\ Goto(t, "disc_return")
    /\ UNCHANGED <<xSockets, xWifiSemaphoreHandle, owned>>

\* WIFI_CloseClientConnection returns; its status is not looked at.
WIFI_CloseClientConnection(t) ==
    /\ At(t, "disc_call")
    /\ Goto(t, "disc_give")
    /\ UNCHANGED <<xSockets, xWifiSemaphoreHandle, owned>>

DisconnectGive(t) ==
    /\ At(t, "disc_give")
    /\ xSemaphoreGive(t)
    /\ Goto(t, "disc_return")
    /\ UNCHANGED <<xSockets, owned>>

\* prvReturnSocket, then the return of Sockets_Disconnect.
DisconnectReturnSocket(t) ==
    /\ At(t, "disc_return")
    /\ xSockets' = [xSockets EXCEPT ![task[t].ulSocketNumber].ucInUse = 0]
    /\ Return(t, task[t].xRetVal)
    /\ owned' = [owned EXCEPT ![t] = @ \ {task[t].ulSocketNumber}]
    /\ UNCHANGED xWifiSemaphoreHandle

(* ------------------------------------------------------------------ *)
(* Sockets_Recv                                                         *)
(* ------------------------------------------------------------------ *)
\* What a read of xSockets[ ulSocketNumber ].ulReceiveTimeout can give: the slot's
\* value, or any value when the index is outside the array (lines 382, 391, 418
\* read without a range check).
ReadReceiveTimeout(ulSocketNumber) ==
    IF ulSocketNumber \in Slots
      THEN {xSockets[ulSocketNumber].ulReceiveTimeout}
      ELSE TimeoutValues

ReadSendTimeout(ulSocketNumber) ==
    IF ulSocketNumber \in Slots
      THEN {xSockets[ulSocketNumber].ulSendTimeout}
      ELSE TimeoutValues

\* The cast ( uint16_t ) of line 401.
uint16_t(x) == x % 65536

\* A Sockets_Recv that hands the caller's buffer length to the driver as it is.
ClampLength_None(xReceiveBufferLength) == xReceiveBufferLength

\* Lines 386-389.
ClampLength(xReceiveBufferLength) ==
    IF xReceiveBufferLength > ES_WIFI_PAYLOAD_SIZE
      THEN ES_WIFI_PAYLOAD_SIZE
      ELSE xReceiveBufferLength

\* Entry of Sockets_Recv up to the loop: the buffer length is clamped and
\* xSemaphoreWait is computed from the slot.
CallRecv(t, h, xReceiveBufferLength) ==
    /\ At(t, "idle")
    /\ \E ulReceiveTimeout \in ReadReceiveTimeout(h) :
         task' = [task EXCEPT ![t] =
                    [IdleTask EXCEPT !.pc = "recv_take", !.op = "Recv",
                                     !.ulSocketNumber = h,
                                     !.xReceiveBufferLength =
                                          ClampLength(xReceiveBufferLength),
                                     !.xSemaphoreWait = ulReceiveTimeout
                                          + stsecuresocketsFIVE_MILLISECONDS]]
    /\ UNCHANGED <<xSockets, xWifiSemaphoreHandle, owned>>

\* The length argument of WIFI_ReceiveData in task t's call.
RequestedLength(t) == uint16_t(task[t].xReceiveBufferLength)

\* A recovery that is also entered on a driver timeout.
EntersRecovery_OnTimeout(xWiFiResult) == xWiFiResult # WIFI_STATUS_OK

\* The code after the loop of Sockets_Recv and after the send of Sockets_Send:
\* recovery is entered when the last driver status is WIFI_STATUS_ERROR.
EntersRecovery(xWiFiResult) == xWiFiResult = WIFI_STATUS_ERROR

LeaveLoop(t, xRetVal) ==
    IF EntersRecovery(task[t].xWiFiResult)
      THEN task' = [task EXCEPT ![t].pc = "reset_call", ![t].xRetVal = xRetVal]
      ELSE Return(t, xRetVal)

\* A receive loop that polls without taking the semaphore.
RecvTake_NoLock(t) ==
    /\ At(t, "recv_take")
    /\ Goto(t, "recv_call")
    /\ UNCHANGED <<xSockets, xWifiSemaphoreHandle, owned>>

RecvTake(t) ==
    /\ At(t, "recv_take")
    /\ SemaphoreAvailable(t)
    /\ xSemaphoreTake(t)
    /\ Goto(t, "recv_call")
    /\ UNCHANGED <<xSockets, owned>>

\* The value Sockets_Recv returns when the semaphore is not obtained.
RecvLockTimeoutResult == 0

\* A receive loop that takes a semaphore not obtained for a failure of the module.
RecvTakeFail_Recover(t) ==
    /\ At(t, "recv_take")
    /\ SemaphoreTimedOut(t)
    /\ task' = [task EXCEPT ![t].pc = "reset_call", ![t].xRetVal = 0]
    /\ UNCHANGED <<xSockets, xWifiSemaphoreHandle, owned>>

RecvTakeFail(t) ==
    /\ At(t, "recv_take")
    /\ SemaphoreTimedOut(t)
    /\ LeaveLoop(t, RecvLockTimeoutResult)
    /\ UNCHANGED <<xSockets, xWifiSemaphoreHandle, owned>>

\* WIFI_ReceiveData returns st, having stored n received bytes, never more than
\* the length it was asked for.
WIFI_ReceiveData(t, st, n) ==
    /\ At(t, "recv_call")
    /\ n <= RequestedLength(t)
    /\ task' = [task EXCEPT ![t].pc = "recv_eval",
                            ![t].xWiFiResult = st,
                            ![t].usReceivedBytes = n]
    /\ UNCHANGED <<xSockets, xWifiSemaphoreHandle, owned>>

\* The steps below begin with the xSemaphoreGive of line 406 and then take
\* one branch of lines 408-440.
RecvData(t) ==
    /\ At(t, "recv_eval")
    /\ xSemaphoreGive(t)
    /\ task[t].xWiFiResult = WIFI_STATUS_OK
    /\ task[t].usReceivedBytes # 0
    /\ LeaveLoop(t, task[t].usReceivedBytes)
    /\ UNCHANGED <<xSockets, owned>>

\* The poll timed out or gave no bytes (line 414).
PollGaveNothing(t) ==
    \/ task[t].xWiFiResult = WIFI_STATUS_TIMEOUT
    \/ (task[t].xWiFiResult = WIFI_STATUS_OK /\ task[t].usReceivedBytes = 0)

\* Line 418 with ticks ticks since entry: ( now - xTimeOnEntering ) < ulReceiveTimeout.
WithinBudget(ticks, ulReceiveTimeout) == ticks < ulReceiveTimeout

\* The value Sockets_Recv returns when the receive timeout has expired.
RecvTimeoutResult == 0

\* A poll that never compares the elapsed ticks with the receive timeout.
RecvPollTimeout_NoBudget(t, ticks) ==
    /\ At(t, "recv_eval")
    /\ xSemaphoreGive(t)
    /\ PollGaveNothing(t)
    /\ Goto(t, "recv_delay")
    /\ UNCHANGED <<xSockets, owned>>

\* ticks: the ticks since entry that line 418 sees.
RecvPollTimeout(t, ticks) ==
    /\ At(t, "recv_eval")
    /\ xSemaphoreGive(t)
    /\ PollGaveNothing(t)
    /\ \E ulReceiveTimeout \in ReadReceiveTimeout(task[t].ulSocketNumber) :
         IF WithinBudget(ticks, ulReceiveTimeout)
           THEN Goto(t, "recv_delay")
           ELSE LeaveLoop(t, RecvTimeoutResult)
    /\ UNCHANGED <<xSockets, owned>>

RecvError(t) ==
    /\ At(t, "recv_eval")
    /\ xSemaphoreGive(t)
    /\ ~(task[t].xWiFiResult = WIFI_STATUS_OK /\ task[t].usReceivedBytes # 0)
    /\ ~PollGaveNothing(t)
    /\ LeaveLoop(t, SOCKETS_SOCKET_ERROR)
    /\ UNCHANGED <<xSockets, owned>>

\* vTaskDelay( stsecuresocketsFIVE_MILLISECONDS ) returns.
RecvDelay(t) ==
    /\ At(t, "recv_delay")
    /\ Goto(t, "recv_take")
    /\ UNCHANGED <<xSockets, xWifiSemaphoreHandle, owned>>

(* ------------------------------------------------------------------ *)
(* Sockets_Send                                                         *)
(* ------------------------------------------------------------------ *)
CallSend(t, h) ==
    /\ At(t, "idle")
    /\ task' = [task EXCEPT ![t] =
                  [IdleTask EXCEPT !.pc = "send_take", !.op = "Send",
                                   !.ulSocketNumber = h,
                                   !.xRetVal = SOCKETS_SOCKET_ERROR]]
    /\ UNCHANGED <<xSockets, xWifiSemaphoreHandle, owned>>

\* The semaphore is obtained and WIFI_SendData is called: its last argument is read
\* from the slot (line 503).
SendTake(t) ==
    /\ At(t, "send_take")
    /\ SemaphoreAvailable(t)
    /\ xSemaphoreTake(t)
    /\ \E ulSendTimeout \in ReadSendTimeout(task[t].ulSocketNumber) :
         task' = [task EXCEPT ![t].pc = "send_call", ![t].ulTimeout = ulSendTimeout]
    /\ UNCHANGED <<xSockets, owned>>

SendTakeFail(t) ==
    /\ At(t, "send_take")
    /\ SemaphoreTimedOut(t)
    /\ LeaveLoop(t, task[t].xRetVal)
    /\ UNCHANGED <<xSockets, xWifiSemaphoreHandle, owned>>

\* WIFI_SendData returns st, having sent n bytes.
WIFI_SendData(t, st, n) ==
    /\ At(t, "send_call")
    /\ task' = [task EXCEPT ![t].pc = "send_give",
                            ![t].ulTimeout = 0,
                            ![t].xWiFiResult = st,
                            ![t].xRetVal = IF st = WIFI_STATUS_OK THEN n ELSE @]
    /\ UNCHANGED <<xSockets, xWifiSemaphoreHandle, owned>>

SendGive(t) ==
    /\ At(t, "send_give")
    /\ xSemaphoreGive(t)
    /\ LeaveLoop(t, task[t].xRetVal)
    /\ UNCHANGED <<xSockets, owned>>

(* ------------------------------------------------------------------ *)
(* Recovery of the WiFi module (Sockets_Recv 454-476, Sockets_Send 518-540) *)
(* ------------------------------------------------------------------ *)
\* A recovery that reinitialises the table whatever WIFI_ResetModule returns.
WIFI_ResetModule_IgnoreStatus(t, st) ==
    /\ At(t, "reset_call")
    /\ Goto(t, "reset_take")
    /\ UNCHANGED <<xSockets, xWifiSemaphoreHandle, owned>>

\* WIFI_ResetModule returns st; it is called without the semaphore.
WIFI_ResetModule(t, st) ==
    /\ At(t, "reset_call")
    /\ IF st = WIFI_STATUS_OK
         THEN Goto(t, "reset_take")
         ELSE Return(t, task[t].xRetVal)
    /\ UNCHANGED <<xSockets, xWifiSemaphoreHandle, owned>>

\* A recovery whose xSemaphoreTake has a block time: when it runs out the call
\* returns without reinitialising the table.
ResetTake_GiveUp(t) ==
    /\ At(t, "reset_take")
    /\ IF SemaphoreAvailable(t)
         THEN /\ xSemaphoreTake(t)
              /\ task' = [task EXCEPT ![t].pc = "init_slot", ![t].ulIndex = 0]
         ELSE /\ task' = [task EXCEPT ![t] = [IdleTask EXCEPT !.op = task[t].op,
                                                              !.xRetVal = SOCKETS_PERIPHERAL_RESET]]
              /\ UNCHANGED xWifiSemaphoreHandle
    /\ UNCHANGED <<xSockets, owned>>

\* xSemaphoreTake( xWifiSemaphoreHandle, portMAX_DELAY ): blocks until obtained.
ResetTake(t) ==
    /\ At(t, "reset_take")
    /\ SemaphoreAvailable(t)
    /\ xSemaphoreTake(t)
    /\ task' = [task EXCEPT ![t].pc = "init_slot", ![t].ulIndex = 0]
    /\ UNCHANGED <<xSockets, owned>>

\* A Sockets_Init that marks the slots closed but leaves them in use.
InitSlot_KeepInUse(t) ==
    /\ At(t, "init_slot")
    /\ xSockets' = [xSockets EXCEPT ![task[t].ulIndex].ulFlags =
                                        {stsecuresocketsSOCKET_READ_CLOSED_FLAG,
                                         stsecuresocketsSOCKET_WRITE_CLOSED_FLAG}]
    /\ IF task[t].ulIndex + 1 < wificonfigMAX_SOCKETS
         THEN task' = [task EXCEPT ![t].ulIndex = task[t].ulIndex + 1]
         ELSE Goto(t, "reset_give")
    /\ UNCHANGED <<xWifiSemaphoreHandle, owned>>

\* Sockets_Init, one iteration of its loop (one slot) per step.
InitSlot(t) ==
    /\ At(t, "init_slot")
    /\ xSockets' = [xSockets EXCEPT ![task[t].ulIndex].ucInUse = 0,
                                    ![task[t].ulIndex].ulFlags =
                                        {stsecuresocketsSOCKET_READ_CLOSED_FLAG,
                                         stsecuresocketsSOCKET_WRITE_CLOSED_FLAG}]
    /\ IF task[t].ulIndex + 1 < wificonfigMAX_SOCKETS
         THEN task' = [task EXCEPT ![t].ulIndex = task[t].ulIndex + 1]
         ELSE Goto(t, "reset_give")
    /\ UNCHANGED <<xWifiSemaphoreHandle, owned>>

\* The status a call returns after the module was reset.
RecoveryResult == SOCKETS_PERIPHERAL_RESET

ResetGive(t) ==
    /\ At(t, "reset_give")
    /\ xSemaphoreGive(t)
    /\ Return(t, RecoveryResult)
    /\ UNCHANGED <<xSockets, owned>>

(* ------------------------------------------------------------------ *)
(* Sockets_SetSockOpt                                                   *)
(* ------------------------------------------------------------------ *)
CallSetSockOpt(t, h) ==
    /\ At(t, "idle")
    /\ Enter(t, "SetSockOpt", h, "opt_valid")
    /\ UNCHANGED <<xSockets, xWifiSemaphoreHandle, owned>>

SetSockOptInvalid(t) ==
    /\ At(t, "opt_valid")
    /\ ~prvIsValidSocket(task[t].ulSocketNumber)
    /\ Return(t, SOCKETS_EINVAL)
    /\ UNCHANGED <<xSockets, xWifiSemaphoreHandle, owned>>

SetSockOptValid(t) ==
    /\ At(t, "opt_valid")
    /\ prvIsValidSocket(task[t].ulSocketNumber)
    /\ Goto(t, "opt_switch")
    /\ UNCHANGED <<xSockets, xWifiSemaphoreHandle, owned>>

\* A switch that takes every option name for the receive timeout.
SetSockOptSwitch_AnyName(t, lOptionName, v) ==
    /\ At(t, "opt_switch")
    /\ xSockets' = [xSockets EXCEPT ![task[t].ulSocketNumber].ulReceiveTimeout = v]
    /\ Return(t, SOCKETS_ERROR_NONE)
    /\ UNCHANGED <<xWifiSemaphoreHandle, owned>>

\* The switch on lOptionName, with *pvOptionValue = v.
SetSockOptSwitch(t, lOptionName, v) ==
    /\ At(t, "opt_switch")
    /\ CASE lOptionName = SOCKETS_SO_RCVTIMEO ->
              /\ xSockets' = [xSockets EXCEPT ![task[t].ulSocketNumber].ulReceiveTimeout = v]
              /\ Return(t, SOCKETS_ERROR_NONE)
         [] lOptionName = SOCKETS_SO_SNDTIMEO ->
              /\ xSockets' = [xSockets EXCEPT ![task[t].ulSocketNumber].ulSendTimeout = v]
              /\ Return(t, SOCKETS_ERROR_NONE)
         [] OTHER ->
              /\ UNCHANGED xSockets
              /\ Return(t, SOCKETS_ENOPROTOOPT)
    /\ UNCHANGED <<xWifiSemaphoreHandle, owned>>

(* ------------------------------------------------------------------ *)
(* Inputs                                                               *)
(* ------------------------------------------------------------------ *)
DriverStatuses == WIFI_Status_t
ByteCounts == 0 .. MaxBytes
Addresses == {0, 1}
\* A driver result: the byte count is looked at only with WIFI_STATUS_OK.
DriverResults == {r \in DriverStatuses \X ByteCounts : r[1] = WIFI_STATUS_OK \/ r[2] = 0}
\* Ticks since entry that an untimed run lets line 418 see: none, or a whole default timeout.
TickSamples == {0, socketsconfigDEFAULT_RECV_TIMEOUT}
OptionNames == {SOCKETS_SO_RCVTIMEO, SOCKETS_SO_SNDTIMEO, SOCKETS_SO_OTHER}
\* The buffer length of the Sockets_Recv calls of the runs that do not vary it.
RecvLength == MaxBytes

InitTable ==
    /\ xSockets = [i \in Slots |-> InitSocket]
    /\ xWifiSemaphoreHandle = NoTask

NoSeqGhost == hist = <<>> /\ snap = <<>>
NoTimeGhost == elapsed = 0 /\ waited = 0

(* ------------------------------------------------------------------ *)
(* Spec: NumTasks tasks calling the operations concurrently, untimed    *)
(* ------------------------------------------------------------------ *)
Init ==
    /\ InitTable
    /\ task = [t \in Tasks |-> IdleTask]
    /\ owned = [t \in Tasks |-> {}]
    /\ NoSeqGhost
    /\ NoTimeGhost

Frame == UNCHANGED <<ghostSeq, ghostTime>>

Next ==
    \/ \E t \in TaskIds : CallOpen(t) /\ Cardinality(owned[t]) < MaxHeld /\ Frame
    \/ \E t \in TaskIds : \E h \in CallerHandles(t) : CallClose(t, h) /\ Frame
    \/ \E t \in TaskIds : \E h \in CallerHandles(t) : CallConnect(t, h) /\ Frame
    \/ \E t \in TaskIds : \E h \in CallerHandles(t) : CallDisconnect(t, h) /\ Frame
    \/ \E t \in TaskIds : \E h \in CallerHandles(t) : CallRecv(t, h, RecvLength) /\ Frame
    \/ \E t \in TaskIds : \E h \in CallerHandles(t) : CallSend(t, h) /\ Frame
    \/ \E t \in TaskIds : GetFreeSocketTake(t) /\ Frame
    \/ \E t \in TaskIds : GetFreeSocketSkip(t) /\ Frame
    \/ \E t \in TaskIds : OpenInvalid(t) /\ Frame
    \/ \E t \in TaskIds : OpenValid(t) /\ Frame
    \/ \E t \in TaskIds : OpenInitSocket(t) /\ Frame
    \/ \E t \in TaskIds : CloseInvalid(t) /\ Frame
    \/ \E t \in TaskIds : CloseValid(t) /\ Frame
    \/ \E t \in TaskIds : CloseReturnSocket(t) /\ Frame
    \/ \E t \in TaskIds : ConnectInvalid(t) /\ Frame
    \/ \E t \in TaskIds : ConnectValid(t) /\ Frame
    \/ \E t \in TaskIds : GetHostTake(t) /\ Frame
    \/ \E t \in TaskIds : GetHostTakeFail(t) /\ Frame
    \/ \E t \in TaskIds : \E st \in DriverStatuses, addr \in Addresses :
                             WIFI_GetHostAddress(t, st, addr) /\ Frame
    \/ \E t \in TaskIds : GetHostGive(t) /\ Frame
    \/ \E t \in TaskIds : ConnectTake(t) /\ Frame
    \/ \E t \in TaskIds : ConnectTakeFail(t) /\ Frame
    \/ \E t \in TaskIds : \E st \in DriverStatuses : WIFI_OpenClientConnection(t, st) /\ Frame
    \/ \E t \in TaskIds : ConnectSetFlag(t) /\ Frame
    \/ \E t \in TaskIds : ConnectGive(t) /\ Frame
    \/ \E t \in TaskIds : DisconnectInvalid(t) /\ Frame
    \/ \E t \in TaskIds : DisconnectValid(t) /\ Frame
    \/ \E t \in TaskIds : DisconnectMarkClosed(t) /\ Frame
    \/ \E t \in TaskIds : DisconnectTake(t) /\ Frame
    \/ \E t \in TaskIds : DisconnectTakeFail(t) /\ Frame
    \/ \E t \in TaskIds : WIFI_CloseClientConnection(t) /\ Frame
    \/ \E t \in TaskIds : DisconnectGive(t) /\ Frame
    \/ \E t \in TaskIds : DisconnectReturnSocket(t) /\ Frame
    \/ \E t \in TaskIds : RecvTake(t) /\ Frame
    \/ \E t \in TaskIds : RecvTakeFail(t) /\ Frame
    \/ \E t \in TaskIds : \E r \in DriverResults : WIFI_ReceiveData(t, r[1], r[2]) /\ Frame
    \/ \E t \in TaskIds : RecvData(t) /\ Frame
    \/ \E t \in TaskIds : \E ticks \in TickSamples : RecvPollTimeout(t, ticks) /\ Frame
    \/ \E t \in TaskIds : RecvError(t) /\ Frame
    \/ \E t \in TaskIds : RecvDelay(t) /\ Frame
    \/ \E t \in TaskIds : SendTake(t) /\ Frame
    \/ \E t \in TaskIds : SendTakeFail(t) /\ Frame
    \/ \E t \in TaskIds : \E r \in DriverResults : WIFI_SendData(t, r[1], r[2]) /\ Frame
    \/ \E t \in TaskIds : SendGive(t) /\ Frame
    \/ \E t \in TaskIds : \E st \in DriverStatuses : WIFI_ResetModule(t, st) /\ Frame
    \/ \E t \in TaskIds : ResetTake(t) /\ Frame
    \/ \E t \in TaskIds : InitSlot(t) /\ Frame
    \/ \E t \in TaskIds : ResetGive(t) /\ Frame

Spec == Init /\ [][Next]_vars

(* ------------------------------------------------------------------ *)
(* Predicates on calls                                                  *)
(* ------------------------------------------------------------------ *)
\* Task t's Sockets_Open has returned.
OpenReturned(t) == task[t].pc = "idle" /\ task[t].op = "Open"

\* Task t's step is the return of its Sockets_Open.
OpenReturns(t) == task[t].op = "Open" /\ task[t].pc # "idle" /\ task'[t].pc = "idle"

\* Slot i as a successful Open hands it out, in the next state.
OpenedWithDefaults(i) ==
    /\ i \in Slots
    /\ xSockets'[i].ucInUse = 1
    /\ xSockets'[i].ulSendTimeout = socketsconfigDEFAULT_SEND_TIMEOUT
    /\ xSockets'[i].ulReceiveTimeout = socketsconfigDEFAULT_RECV_TIMEOUT

ClosedFlags ==
    {stsecuresocketsSOCKET_READ_CLOSED_FLAG, stsecuresocketsSOCKET_WRITE_CLOSED_FLAG}

(* ------------------------------------------------------------------ *)
(* SpecOpen: wificonfigMAX_SOCKETS + ExtraOpeners tasks, each calling   *)
(* Sockets_Open once on the initialised table                           *)
(* ------------------------------------------------------------------ *)
InitOpen ==
    /\ InitTable
    /\ task = [t \in Openers |-> IdleTask]
    /\ owned = [t \in Openers |-> {}]
    /\ NoSeqGhost
    /\ NoTimeGhost

NextOpen ==
    \/ \E t \in TaskIds : CallOpen(t) /\ task[t].op = "none" /\ Frame
    \/ \E t \in TaskIds : GetFreeSocketTake(t) /\ Frame
    \/ \E t \in TaskIds : GetFreeSocketSkip(t) /\ Frame
    \/ \E t \in TaskIds : OpenInvalid(t) /\ Frame
    \/ \E t \in TaskIds : OpenValid(t) /\ Frame
    \/ \E t \in TaskIds : OpenInitSocket(t) /\ Frame

SpecOpen == InitOpen /\ [][NextOpen]_vars

\* C3: concurrent Sockets_Open calls never return the same handle: the valid handles
\* returned are pairwise distinct, and once all wificonfigMAX_SOCKETS + ExtraOpeners
\* calls have returned exactly wificonfigMAX_SOCKETS of them returned a valid handle
\* and the others SOCKETS_INVALID_SOCKET.
C3_ConcurrentOpenDistinct ==
    /\ \A t1, t2 \in TaskIds :
          (t1 # t2 /\ OpenReturned(t1) /\ OpenReturned(t2)
             /\ task[t1].xRetVal # SOCKETS_INVALID_SOCKET)
            => task[t1].xRetVal # task[t2].xRetVal
    /\ \A t \in TaskIds :
          OpenReturned(t) => task[t].xRetVal \in Slots \cup {SOCKETS_INVALID_SOCKET}
    /\ (\A t \in TaskIds : OpenReturned(t))
          => Cardinality({t \in TaskIds : task[t].xRetVal \in Slots})
               = wificonfigMAX_SOCKETS

\* C3 happens: every call has returned, task 1 among those that got no socket while
\* a later task got slot 0.
C3_Witness ==
    /\ \A t \in TaskIds : OpenReturned(t)
    /\ task[1].xRetVal = SOCKETS_INVALID_SOCKET
    /\ \E t \in TaskIds : task[t].xRetVal = 0

(* ------------------------------------------------------------------ *)
(* One caller, one call at a time                                       *)
(* ------------------------------------------------------------------ *)
\* hist: whether no Close, Disconnect or table reset has happened since the table
\* was initialised, and the results of the Opens made while that was so.
\* snap: the handle of the current call and, when that call is an Open, the call
\* before it (operation, handle, result) and the slots in use when it began.
InitOneCaller ==
    /\ InitTable
    /\ task = [t \in {1} |-> IdleTask]
    /\ owned = [t \in {1} |-> {}]
    /\ hist = [fresh |-> TRUE, results |-> <<>>]
    /\ snap = [prev |-> <<"none", 0, 0>>, handle |-> 0, inUse |-> {}]
    /\ NoTimeGhost

SeqOptionValues == {MaxRecvTimeout}

NoCall == <<"none", 0, 0>>

\* A call with handle h begins after the call before it has returned.
SeqCall(t, h) == snap' = [prev |-> NoCall, handle |-> h, inUse |-> {}]

\* Sockets_Open begins: the call before it is remembered until the next call.
SeqCallOpen(t) ==
    snap' = [prev |-> <<task[t].op, snap.handle, task[t].xRetVal>>,
             handle |-> 0,
             inUse |-> {i \in Slots : xSockets[i].ucInUse = 1}]

SeqOpenReturns(t) ==
    /\ hist' = IF hist.fresh
                 THEN [hist EXCEPT !.results = Append(@, OpenResult(t))]
                 ELSE hist
    /\ UNCHANGED snap

SeqNoLongerFresh == hist' = [fresh |-> FALSE, results |-> <<>>]

SeqStep == UNCHANGED <<ghostSeq, ghostTime>>

(* ------------------------------------------------------------------ *)
(* SpecSeq: one caller holding at most SeqMaxHeld sockets, all operations *)
(* ------------------------------------------------------------------ *)
\* With fewer than wificonfigMAX_SOCKETS sockets held and no other task, the scan of
\* prvGetFreeSocket finds a free slot and the slot is still in use at line 262.
InitSeq == InitOneCaller

NextSeq ==
    \/ \E t \in TaskIds : CallOpen(t) /\ Cardinality(owned[t]) < SeqMaxHeld
                               /\ SeqCallOpen(t) /\ UNCHANGED <<hist, ghostTime>>
    \/ \E t \in TaskIds : \E h \in CallerHandles(t) :
          CallClose(t, h) /\ SeqCall(t, h) /\ SeqNoLongerFresh /\ UNCHANGED ghostTime
    \/ \E t \in TaskIds : \E h \in CallerHandles(t) :
          CallDisconnect(t, h) /\ SeqCall(t, h) /\ SeqNoLongerFresh /\ UNCHANGED ghostTime
    \/ \E t \in TaskIds : \E h \in CallerHandles(t) :
          CallConnect(t, h) /\ SeqCall(t, h) /\ UNCHANGED <<hist, ghostTime>>
    \/ \E t \in TaskIds : \E h \in CallerHandles(t) :
          CallRecv(t, h, RecvLength) /\ SeqCall(t, h) /\ UNCHANGED <<hist, ghostTime>>
    \/ \E t \in TaskIds : \E h \in CallerHandles(t) :
          CallSend(t, h) /\ SeqCall(t, h) /\ UNCHANGED <<hist, ghostTime>>
    \/ \E t \in TaskIds : \E h \in CallerHandles(t) :
          CallSetSockOpt(t, h) /\ SeqCall(t, h) /\ UNCHANGED <<hist, ghostTime>>
    \/ \E t \in TaskIds : GetFreeSocketTake(t) /\ SeqStep
    \/ \E t \in TaskIds : GetFreeSocketSkip(t) /\ SeqStep
    \/ \E t \in TaskIds : OpenValid(t) /\ SeqStep
    \/ \E t \in TaskIds : OpenInitSocket(t) /\ SeqOpenReturns(t) /\ UNCHANGED ghostTime
    \/ \E t \in TaskIds : CloseInvalid(t) /\ SeqStep
    \/ \E t \in TaskIds : CloseValid(t) /\ SeqStep
    \/ \E t \in TaskIds : CloseReturnSocket(t) /\ SeqStep
    \/ \E t \in TaskIds : ConnectInvalid(t) /\ SeqStep
    \/ \E t \in TaskIds : ConnectValid(t) /\ SeqStep
    \/ \E t \in TaskIds : GetHostTake(t) /\ SeqStep
    \/ \E t \in TaskIds : \E st \in DriverStatuses, addr \in Addresses :
                             WIFI_GetHostAddress(t, st, addr) /\ SeqStep
    \/ \E t \in TaskIds : GetHostGive(t) /\ SeqStep
    \/ \E t \in TaskIds : ConnectTake(t) /\ SeqStep
    \/ \E t \in TaskIds : \E st \in DriverStatuses : WIFI_OpenClientConnection(t, st) /\ SeqStep
    \/ \E t \in TaskIds : ConnectSetFlag(t) /\ SeqStep
    \/ \E t \in TaskIds : ConnectGive(t) /\ SeqStep
    \/ \E t \in TaskIds : DisconnectInvalid(t) /\ SeqStep
    \/ \E t \in TaskIds : DisconnectValid(t) /\ SeqStep
    \/ \E t \in TaskIds : DisconnectMarkClosed(t) /\ SeqStep
    \/ \E t \in TaskIds : DisconnectTake(t) /\ SeqStep
    \/ \E t \in TaskIds : WIFI_CloseClientConnection(t) /\ SeqStep
    \/ \E t \in TaskIds : DisconnectGive(t) /\ SeqStep
    \/ \E t \in TaskIds : DisconnectReturnSocket(t) /\ SeqStep
    \/ \E t \in TaskIds : RecvTake(t) /\ SeqStep
    \/ \E t \in TaskIds : \E r \in DriverResults : WIFI_ReceiveData(t, r[1], r[2]) /\ SeqStep
    \/ \E t \in TaskIds : RecvData(t) /\ SeqStep
    \/ \E t \in TaskIds : \E ticks \in TickSamples : RecvPollTimeout(t, ticks) /\ SeqStep
    \/ \E t \in TaskIds : RecvError(t) /\ SeqStep
    \/ \E t \in TaskIds : RecvDelay(t) /\ SeqStep
    \/ \E t \in TaskIds : SendTake(t) /\ SeqStep
    \/ \E t \in TaskIds : \E r \in DriverResults : WIFI_SendData(t, r[1], r[2]) /\ SeqStep
    \/ \E t \in TaskIds : SendGive(t) /\ SeqStep
    \/ \E t \in TaskIds : \E st \in DriverStatuses : WIFI_ResetModule(t, st) /\ SeqStep
    \/ \E t \in TaskIds : ResetTake(t) /\ SeqNoLongerFresh /\ UNCHANGED <<snap, ghostTime>>
    \/ \E t \in TaskIds : InitSlot(t) /\ SeqStep
    \/ \E t \in TaskIds : ResetGive(t) /\ SeqStep
    \/ \E t \in TaskIds : SetSockOptInvalid(t) /\ SeqStep
    \/ \E t \in TaskIds : SetSockOptValid(t) /\ SeqStep
    \/ \E t \in TaskIds : \E lOptionName \in OptionNames, v \in SeqOptionValues :
                             SetSockOptSwitch(t, lOptionName, v) /\ SeqStep

SpecSeq == InitSeq /\ [][NextSeq]_vars

(* ------------------------------------------------------------------ *)
(* SpecAlloc: one caller using the whole table: Open, Close,            *)
(* Disconnect and SetSockOpt                                            *)
(* ------------------------------------------------------------------ *)
InitAlloc == InitOneCaller

NextAlloc ==
    \/ \E t \in TaskIds : CallOpen(t) /\ (hist.fresh => Len(hist.results) < MaxOpens)
                               /\ SeqCallOpen(t) /\ UNCHANGED <<hist, ghostTime>>
    \/ \E t \in TaskIds : \E h \in CallerHandles(t) :
          CallClose(t, h) /\ SeqCall(t, h) /\ SeqNoLongerFresh /\ UNCHANGED ghostTime
    \/ \E t \in TaskIds : \E h \in CallerHandles(t) :
          CallDisconnect(t, h) /\ SeqCall(t, h) /\ SeqNoLongerFresh /\ UNCHANGED ghostTime
    \/ \E t \in TaskIds : \E h \in CallerHandles(t) :
          CallSetSockOpt(t, h) /\ SeqCall(t, h) /\ UNCHANGED <<hist, ghostTime>>
    \/ \E t \in TaskIds : GetFreeSocketTake(t) /\ SeqStep
    \/ \E t \in TaskIds : GetFreeSocketSkip(t) /\ SeqStep
    \/ \E t \in TaskIds : OpenInvalid(t) /\ SeqOpenReturns(t) /\ UNCHANGED ghostTime
    \/ \E t \in TaskIds : OpenValid(t) /\ SeqStep
    \/ \E t \in TaskIds : OpenInitSocket(t) /\ SeqOpenReturns(t) /\ UNCHANGED ghostTime
    \/ \E t \in TaskIds : CloseInvalid(t) /\ SeqStep
    \/ \E t \in TaskIds : CloseValid(t) /\ SeqStep
    \/ \E t \in TaskIds : CloseReturnSocket(t) /\ SeqStep
    \/ \E t \in TaskIds : DisconnectInvalid(t) /\ SeqStep
    \/ \E t \in TaskIds : DisconnectValid(t) /\ SeqStep
    \/ \E t \in TaskIds : DisconnectMarkClosed(t) /\ SeqStep
    \/ \E t \in TaskIds : DisconnectTake(t) /\ SeqStep
    \/ \E t \in TaskIds : WIFI_CloseClientConnection(t) /\ SeqStep
    \/ \E t \in TaskIds : DisconnectGive(t) /\ SeqStep
    \/ \E t \in TaskIds : DisconnectReturnSocket(t) /\ SeqStep
    \/ \E t \in TaskIds : SetSockOptInvalid(t) /\ SeqStep
    \/ \E t \in TaskIds : SetSockOptValid(t) /\ SeqStep
    \/ \E t \in TaskIds : \E lOptionName \in OptionNames, v \in SeqOptionValues :
                             SetSockOptSwitch(t, lOptionName, v) /\ SeqStep

SpecAlloc == InitAlloc /\ [][NextAlloc]_vars

\* The i-th Open on a fresh table returns slot i-1 while there is one.
ExpectedOpenResult(i) ==
    IF i <= wificonfigMAX_SOCKETS THEN i - 1 ELSE SOCKETS_INVALID_SOCKET

\* C2: on an initialised table, with no Close, Disconnect or reset in between, the
\* first wificonfigMAX_SOCKETS Opens return 0, 1, 2, 3 and every further Open
\* returns SOCKETS_INVALID_SOCKET and changes no slot; after Close of handle h with
\* all other slots in use, the next Open returns h with both timeouts at 10000.
C2_SequentialOpen ==
    [][\A t \in TaskIds :
          /\ hist'.fresh =>
                \A i \in 1 .. Len(hist'.results) :
                    hist'.results[i] = ExpectedOpenResult(i)
          /\ (hist.fresh /\ Len(hist.results) >= wificonfigMAX_SOCKETS
                /\ task[t].op = "Open" /\ task[t].pc # "idle")
                => xSockets' = xSockets
          /\ (OpenReturns(t) /\ snap.prev[1] = "Close" /\ snap.prev[2] \in Slots
                /\ snap.inUse = Slots \ {snap.prev[2]})
                => /\ task'[t].xRetVal = snap.prev[2]
                   /\ OpenedWithDefaults(snap.prev[2])]_vars

\* C2 happens: with the table full, handle 1 was closed and the next Open returned 1,
\* while another socket carries a timeout set by SetSockOpt.
C2_Witness ==
    \E t \in TaskIds :
        /\ OpenReturned(t)
        /\ task[t].xRetVal = 1
        /\ snap.prev = <<"Close", 1, SOCKETS_ERROR_NONE>>
        /\ snap.inUse = Slots \ {1}
        /\ xSockets[0].ulReceiveTimeout = MaxRecvTimeout

\* C5 as stated: a slot that Open returned shows READ_CLOSED and WRITE_CLOSED set and
\* IS_CONNECTED clear at Open's return.
C5_OpenedSlotShowsClosed ==
    \A t \in TaskIds :
        (OpenReturned(t) /\ task[t].xRetVal \in Slots)
          => /\ ClosedFlags \subseteq xSockets[task[t].xRetVal].ulFlags
             /\ stsecuresocketsSOCKET_IS_CONNECTED_FLAG
                   \notin xSockets[task[t].xRetVal].ulFlags

\* C5, amended: Open stores exactly the SECURE flag in the slot it returns (first use
\* or reuse), so READ_CLOSED, WRITE_CLOSED and IS_CONNECTED are all clear, and a
\* slot's flags stay exactly SECURE until a Connect on it succeeds, a Disconnect
\* marks it closed, or Sockets_Init reinitialises it after a module reset.
C5_OpenedSlotIsSecureOnly ==
    [][\A i \in Slots :
          /\ (\E t \in TaskIds : At(t, "open_flags") /\ task[t].ulSocketNumber = i
                                    /\ task'[t].pc = "idle")
                => xSockets'[i].ulFlags = {stsecuresocketsSOCKET_SECURE_FLAG}
          /\ (xSockets[i].ulFlags = {stsecuresocketsSOCKET_SECURE_FLAG}
                /\ xSockets'[i].ulFlags # xSockets[i].ulFlags)
                => \E t \in TaskIds :
                      \/ /\ At(t, "conn_flag") /\ task[t].ulSocketNumber = i
                         /\ xSockets'[i].ulFlags = {stsecuresocketsSOCKET_SECURE_FLAG,
                                                    stsecuresocketsSOCKET_IS_CONNECTED_FLAG}
                      \/ /\ At(t, "disc_rc") /\ task[t].ulSocketNumber = i
                         /\ xSockets'[i].ulFlags =
                              {stsecuresocketsSOCKET_SECURE_FLAG} \cup ClosedFlags
                      \/ /\ At(t, "init_slot") /\ task[t].ulIndex = i
                         /\ xSockets'[i].ulFlags = ClosedFlags]_vars

\* C5 happens: handle 0 was closed and the next Open returned 0 again, its flags
\* exactly SECURE, while the other socket is connected.
C5_Witness ==
    \E t \in TaskIds :
        /\ OpenReturned(t)
        /\ task[t].xRetVal = 0
        /\ snap.prev = <<"Close", 0, SOCKETS_ERROR_NONE>>
        /\ xSockets[0].ulFlags = {stsecuresocketsSOCKET_SECURE_FLAG}
        /\ stsecuresocketsSOCKET_IS_CONNECTED_FLAG \in xSockets[1].ulFlags

\* C8: when the module reset succeeds after a driver error in Send or Recv, the call
\* returns SOCKETS_PERIPHERAL_RESET and at its return every slot is free with
\* READ_CLOSED and WRITE_CLOSED set and IS_CONNECTED clear; the next Open succeeds
\* and returns a handle whose timeouts are the defaults.
C8_ResetFreesTable ==
    [][\A t \in TaskIds :
          /\ (At(t, "reset_give") /\ task'[t] # task[t])
                => /\ task'[t].pc = "idle"
                   /\ task'[t].xRetVal = SOCKETS_PERIPHERAL_RESET
                   /\ \A i \in Slots : /\ xSockets'[i].ucInUse = 0
                                        /\ xSockets'[i].ulFlags = ClosedFlags
          /\ (OpenReturns(t) /\ snap.prev[1] \in {"Send", "Recv"}
                /\ snap.prev[3] = SOCKETS_PERIPHERAL_RESET)
                => OpenedWithDefaults(task'[t].xRetVal)]_vars

\* C8 happens: after a Send or Recv that returned SOCKETS_PERIPHERAL_RESET the next
\* Open has returned slot 0, and slot 1, opened earlier, is free and closed.
C8_Witness ==
    \E t \in TaskIds :
        /\ OpenReturned(t)
        /\ task[t].xRetVal = 0
        /\ snap.prev[1] \in {"Send", "Recv"}
        /\ snap.prev[3] = SOCKETS_PERIPHERAL_RESET
        /\ xSockets[1].ucInUse = 0
        /\ xSockets[1].ulFlags = ClosedFlags
        /\ xSockets[1].ulReceiveTimeout # 0

\* C19 as stated: in every reachable state, every slot that is not in use has
\* READ_CLOSED and WRITE_CLOSED set and IS_CONNECTED clear.
C19_FreeSlotsAreClosed ==
    \A i \in Slots :
        xSockets[i].ucInUse = 0
          => /\ ClosedFlags \subseteq xSockets[i].ulFlags
             /\ stsecuresocketsSOCKET_IS_CONNECTED_FLAG \notin xSockets[i].ulFlags

\* The flags a slot can carry once it was opened.
OpenedFlags ==
    {OpenInitialFlags \cup c \cup k :
        c \in {{}, {stsecuresocketsSOCKET_IS_CONNECTED_FLAG}}, k \in {{}, ClosedFlags}}

\* C19, amended: Sockets_Close marks the slot free and leaves its flags as they are;
\* Sockets_Disconnect adds READ_CLOSED and WRITE_CLOSED to the flags, leaving SECURE
\* and IS_CONNECTED as they are, and then marks the slot free. A slot that is not in
\* use has the flags of an initialised slot (READ_CLOSED and WRITE_CLOSED only) if it
\* was not opened since the table was initialised or reset, and otherwise the flags
\* its last owner left: SECURE, with or without IS_CONNECTED, and with READ_CLOSED
\* and WRITE_CLOSED only if Sockets_Disconnect was called on it.
C19_FreeSlotsKeepFlags ==
    [][/\ \A i \in Slots :
             xSockets[i].ucInUse = 0 => xSockets[i].ulFlags \in OpenedFlags \cup {ClosedFlags}
       /\ \A t \in TaskIds :
             LET i == task[t].ulSocketNumber IN
             /\ At(t, "close_return")
                   => xSockets' = [xSockets EXCEPT ![i].ucInUse = 0]
             /\ At(t, "disc_rc")
                   => xSockets' = [xSockets EXCEPT ![i].ulFlags = @ \cup ClosedFlags]
             /\ At(t, "disc_return")
                   => /\ xSockets' = [xSockets EXCEPT ![i].ucInUse = 0]
                      /\ ClosedFlags \subseteq xSockets'[i].ulFlags
             /\ (task[t].op \in {"Close", "Disconnect"}
                   /\ task[t].pc \notin {"idle", "close_return", "disc_rc", "disc_return"})
                   => xSockets' = xSockets]_vars

\* C19 happens: a connected socket was closed with Sockets_Close: its slot is free
\* and still carries SECURE and IS_CONNECTED, and neither READ_CLOSED nor WRITE_CLOSED.
C19_Witness ==
    \E t \in TaskIds :
        /\ At(t, "idle") /\ task[t].op = "Close"
        /\ snap.handle \in Slots
        /\ xSockets[snap.handle].ucInUse = 0
        /\ xSockets[snap.handle].ulFlags = {stsecuresocketsSOCKET_SECURE_FLAG,
                                            stsecuresocketsSOCKET_IS_CONNECTED_FLAG}

(* ------------------------------------------------------------------ *)
(* SpecTime: task 1 receives on slot 0 while task 2 sends on slot 1,    *)
(* each setting the options of its socket between calls; the driver     *)
(* delivers no data and reports no error; time is counted in ticks and  *)
(* passes only while task 1 is blocked                                  *)
(* ------------------------------------------------------------------ *)
Receiver == 1
Sender == 2

\* The largest value the model counts elapsed ticks to.
ElapsedCap == 2 * (MaxRecvTimeout + stsecuresocketsFIVE_MILLISECONDS) + 2

\* Both sockets are open; the receiver's timeout was set to 0 with SetSockOpt.
InitTime ==
    /\ xSockets = [i \in Slots |->
                     IF i = 0
                       THEN [ucInUse |-> 1, ulFlags |-> OpenInitialFlags,
                             ulSendTimeout |-> socketsconfigDEFAULT_SEND_TIMEOUT,
                             ulReceiveTimeout |-> 0]
                     ELSE IF i = 1
                       THEN [ucInUse |-> 1, ulFlags |-> OpenInitialFlags,
                             ulSendTimeout |-> socketsconfigDEFAULT_SEND_TIMEOUT,
                             ulReceiveTimeout |-> socketsconfigDEFAULT_RECV_TIMEOUT]
                     ELSE InitSocket]
    /\ xWifiSemaphoreHandle = NoTask
    /\ task = [t \in {Receiver, Sender} |-> IdleTask]
    /\ owned = [t \in {Receiver, Sender} |-> IF t = Receiver THEN {0} ELSE {1}]
    /\ NoSeqGhost
    /\ NoTimeGhost

\* The receiver is in a call that blocks for at most the given number of ticks.
BlockedFor(ticks) == waited < ticks

\* The receiver can let a tick pass: it is inside a blocking call whose block time
\* has not run out, and it is not waiting for a semaphore that is available.
ReceiverCanWait ==
    \/ At(Receiver, "recv_take") /\ BlockedFor(task[Receiver].xSemaphoreWait)
                                 /\ ~SemaphoreAvailable(Receiver)
    \/ At(Receiver, "recv_call") /\ BlockedFor(stsecuresocketsONE_MILLISECOND)
    \/ At(Receiver, "recv_delay") /\ BlockedFor(stsecuresocketsFIVE_MILLISECONDS)

\* The tick interrupt.
Tick ==
    /\ ReceiverCanWait
    /\ elapsed' = IF elapsed < ElapsedCap THEN elapsed + 1 ELSE elapsed
    /\ waited' = waited + 1
    /\ UNCHANGED <<xSockets, xWifiSemaphoreHandle, task, owned, ghostSeq>>

\* The receiver enters or leaves a blocking call.
TimeUnblocked == waited' = 0 /\ UNCHANGED <<elapsed, ghostSeq>>

TimeIdle == UNCHANGED <<ghostSeq, ghostTime>>

\* What the driver answers in these runs: no data and no error.
QuietResults == {<<WIFI_STATUS_TIMEOUT, 0>>, <<WIFI_STATUS_OK, 0>>}
SendResults == {r \in DriverResults : r[1] # WIFI_STATUS_ERROR}

NextTime ==
    \/ Tick
    \/ CallRecv(Receiver, 0, RecvLength) /\ elapsed' = 0 /\ waited' = 0 /\ UNCHANGED ghostSeq
    \/ RecvTake(Receiver) /\ TimeUnblocked
    \/ RecvTakeFail(Receiver) /\ ~BlockedFor(task[Receiver].xSemaphoreWait) /\ TimeUnblocked
    \/ \E r \in QuietResults : WIFI_ReceiveData(Receiver, r[1], r[2]) /\ TimeUnblocked
    \/ RecvPollTimeout(Receiver, elapsed) /\ TimeUnblocked
    \/ RecvDelay(Receiver) /\ ~BlockedFor(stsecuresocketsFIVE_MILLISECONDS) /\ TimeUnblocked
    \/ CallSend(Sender, 1) /\ TimeIdle
    \/ SendTake(Sender) /\ TimeIdle
    \/ SendTakeFail(Sender) /\ TimeIdle
    \/ \E r \in SendResults : WIFI_SendData(Sender, r[1], r[2]) /\ TimeIdle
    \/ SendGive(Sender) /\ TimeIdle
    \/ \E t \in TaskIds : \E h \in owned[t] : CallSetSockOpt(t, h) /\ TimeIdle
    \/ \E t \in TaskIds : SetSockOptValid(t) /\ TimeIdle
    \/ \E t \in TaskIds : \E lOptionName \in OptionNames, v \in OptionValues :
                             SetSockOptSwitch(t, lOptionName, v) /\ TimeIdle

SpecTime == InitTime /\ [][NextTime]_vars

\* The slack allowed on top of the receive timeout: two rounds of the receive loop,
\* each one delay and one poll.
RecvSlack == 2 * (stsecuresocketsFIVE_MILLISECONDS + stsecuresocketsONE_MILLISECOND)

\* C6: with no data and no driver error, Sockets_Recv on a socket with receive
\* timeout T returns 0, and it returns within T + RecvSlack ticks of its entry,
\* whether or not another task contends for the semaphore.
C6_RecvReturnsWithinTimeout ==
    /\ (task[Receiver].op = "Recv" /\ task[Receiver].pc # "idle")
          => elapsed <= xSockets[0].ulReceiveTimeout + RecvSlack
    /\ (task[Receiver].op = "Recv" /\ task[Receiver].pc = "idle")
          => task[Receiver].xRetVal = 0

\* Task t is inside Sockets_SetSockOpt.
InSetSockOpt(t) == task[t].pc \in {"opt_valid", "opt_switch"}

\* C11: Sockets_SetSockOpt on a valid handle with SOCKETS_SO_RCVTIMEO stores the value
\* in the slot's ulReceiveTimeout, the budget the following Sockets_Recv calls on the
\* handle compare the elapsed ticks with; with SOCKETS_SO_SNDTIMEO it stores the
\* value in ulSendTimeout, which the following Sockets_Send calls pass to the driver;
\* with any other name it returns SOCKETS_ENOPROTOOPT and changes no slot; it never
\* takes the semaphore and never issues a driver command.
C11_SetSockOptEffect ==
    [][\A t \in TaskIds :
          LET i == task[t].ulSocketNumber IN
          /\ (At(t, "opt_switch") /\ task'[t] # task[t])
                => /\ task'[t].pc = "idle"
                   /\ \/ /\ task'[t].xRetVal = SOCKETS_ERROR_NONE
                         /\ \E v \in OptionValues :
                               \/ xSockets' = [xSockets EXCEPT ![i].ulReceiveTimeout = v]
                               \/ xSockets' = [xSockets EXCEPT ![i].ulSendTimeout = v]
                      \/ /\ task'[t].xRetVal = SOCKETS_ENOPROTOOPT
                         /\ xSockets' = xSockets
          /\ \A v \in OptionValues :
                /\ SetSockOptSwitch(t, SOCKETS_SO_RCVTIMEO, v)
                      => /\ xSockets'[i].ulReceiveTimeout = v
                         /\ xSockets'[i].ulSendTimeout = xSockets[i].ulSendTimeout
                         /\ task'[t].xRetVal = SOCKETS_ERROR_NONE
                /\ SetSockOptSwitch(t, SOCKETS_SO_SNDTIMEO, v)
                      => /\ xSockets'[i].ulSendTimeout = v
                         /\ xSockets'[i].ulReceiveTimeout = xSockets[i].ulReceiveTimeout
                         /\ task'[t].xRetVal = SOCKETS_ERROR_NONE
                /\ SetSockOptSwitch(t, SOCKETS_SO_OTHER, v)
                      => /\ xSockets' = xSockets
                         /\ task'[t].xRetVal = SOCKETS_ENOPROTOOPT
          /\ (InSetSockOpt(t) /\ task'[t] # task[t])
                => /\ xWifiSemaphoreHandle' = xWifiSemaphoreHandle
                   /\ xWifiSemaphoreHandle # t
                   /\ task'[t].pc \in {"opt_switch", "idle"}
          /\ (At(t, "recv_eval") /\ task'[t] # task[t])
                => (task'[t].pc = "recv_delay" <=> elapsed < xSockets[i].ulReceiveTimeout)
          /\ (At(t, "send_take") /\ task'[t].pc = "send_call")
                => task'[t].ulTimeout = xSockets[i].ulSendTimeout]_vars

\* C11 happens: the receiver, whose socket was opened with receive timeout 0, is
\* delayed inside Sockets_Recv because the timeout is now MaxRecvTimeout, while the
\* sender's driver call carries a send timeout of MaxRecvTimeout instead of the default.
C11_Witness ==
    /\ At(Receiver, "recv_delay")
    /\ xSockets[0].ulReceiveTimeout = MaxRecvTimeout
    /\ At(Sender, "send_call")
    /\ task[Sender].ulTimeout = MaxRecvTimeout

(* ------------------------------------------------------------------ *)
(* SpecLive: task 1 receives on slot 0 while task 2 sends on slot 1,    *)
(* the driver reporting every status; a task inside a call keeps        *)
(* running (weak fairness of its steps), a task outside need not call   *)
(* ------------------------------------------------------------------ *)
InitLive ==
    /\ xSockets = [i \in Slots |->
                     IF i \in {0, 1}
                       THEN [ucInUse |-> 1, ulFlags |-> OpenInitialFlags,
                             ulSendTimeout |-> socketsconfigDEFAULT_SEND_TIMEOUT,
                             ulReceiveTimeout |-> socketsconfigDEFAULT_RECV_TIMEOUT]
                       ELSE InitSocket]
    /\ xWifiSemaphoreHandle = NoTask
    /\ task = [t \in {Receiver, Sender} |-> IdleTask]
    /\ owned = [t \in {Receiver, Sender} |-> IF t = Receiver THEN {0} ELSE {1}]
    /\ NoSeqGhost
    /\ NoTimeGhost

\* A step of task t inside a call.
LiveStep(t) ==
    \/ RecvTake(t) /\ Frame
    \/ RecvTakeFail(t) /\ Frame
    \/ \E r \in DriverResults : WIFI_ReceiveData(t, r[1], r[2]) /\ Frame
    \/ RecvData(t) /\ Frame
    \/ \E ticks \in TickSamples : RecvPollTimeout(t, ticks) /\ Frame
    \/ RecvError(t) /\ Frame
    \/ RecvDelay(t) /\ Frame
    \/ SendTake(t) /\ Frame
    \/ SendTakeFail(t) /\ Frame
    \/ \E r \in DriverResults : WIFI_SendData(t, r[1], r[2]) /\ Frame
    \/ SendGive(t) /\ Frame
    \/ \E st \in DriverStatuses : WIFI_ResetModule(t, st) /\ Frame
    \/ ResetTake(t) /\ Frame
    \/ InitSlot(t) /\ Frame
    \/ ResetGive(t) /\ Frame

NextLive ==
    \/ CallRecv(Receiver, 0, RecvLength) /\ Frame
    \/ CallSend(Sender, 1) /\ Frame
    \/ \E t \in TaskIds : LiveStep(t)

SpecLive ==
    /\ InitLive
    /\ [][NextLive]_vars
    /\ WF_vars(LiveStep(Receiver))
    /\ WF_vars(LiveStep(Sender))

\* Task t's call has returned SOCKETS_PERIPHERAL_RESET.
RecoveryReturned(t) == At(t, "idle") /\ task[t].xRetVal = RecoveryResult

SemaphoreGranted(t) == SF_vars(ResetTake(t) /\ Frame)

InitLen ==
    /\ xSockets = [i \in Slots |->
                     IF i = 0
                       THEN [ucInUse |-> 1, ulFlags |-> OpenInitialFlags,
                             ulSendTimeout |-> socketsconfigDEFAULT_SEND_TIMEOUT,
                             ulReceiveTimeout |-> socketsconfigDEFAULT_RECV_TIMEOUT]
                       ELSE InitSocket]
    /\ xWifiSemaphoreHandle = NoTask
    /\ task = [t \in {1} |-> IdleTask]
    /\ owned = [t \in {1} |-> {0}]
    /\ hist = <<>>
    /\ snap = [len |-> 0]
    /\ NoTimeGhost

\* Sockets_Recv is called with a buffer of xReceiveBufferLength bytes.
LenCall(xReceiveBufferLength) ==
    /\ snap' = [len |-> xReceiveBufferLength]
    /\ UNCHANGED <<hist, ghostTime>>

LenResults ==
    {r \in DriverStatuses \X (0 .. (ES_WIFI_PAYLOAD_SIZE + 1)) :
        r[1] = WIFI_STATUS_OK \/ r[2] = 0}

NextLen ==
    \/ \E t \in TaskIds : \E len \in BufferLengths : CallRecv(t, 0, len) /\ LenCall(len)
    \/ \E t \in TaskIds : RecvTake(t) /\ Frame
    \/ \E t \in TaskIds : \E r \in LenResults : WIFI_ReceiveData(t, r[1], r[2]) /\ Frame
    \/ \E t \in TaskIds : RecvData(t) /\ Frame
    \/ \E t \in TaskIds : \E ticks \in TickSamples : RecvPollTimeout(t, ticks) /\ Frame
    \/ \E t \in TaskIds : RecvError(t) /\ Frame
    \/ \E t \in TaskIds : RecvDelay(t) /\ Frame
    \/ \E t \in TaskIds : \E st \in DriverStatuses : WIFI_ResetModule(t, st) /\ Frame
    \/ \E t \in TaskIds : ResetTake(t) /\ Frame
    \/ \E t \in TaskIds : InitSlot(t) /\ Frame
    \/ \E t \in TaskIds : ResetGive(t) /\ Frame

SpecLen == InitLen /\ [][NextLen]_vars

Min(a, b) == IF a < b THEN a ELSE b

\* Task t is inside the receive loop of Sockets_Recv.
InRecvLoop(t) == task[t].pc \in {"recv_take", "recv_call", "recv_eval", "recv_delay"}

\* C12: for every buffer length given to Sockets_Recv, the length it passes to
\* WIFI_ReceiveData is the smaller of that length and ES_WIFI_PAYLOAD_SIZE, so with a
\* driver that stores no more bytes than it was asked for, a nonzero result of
\* Sockets_Recv exceeds neither ES_WIFI_PAYLOAD_SIZE nor the buffer length.
C12_RecvLengthClamped ==
    \A t \in TaskIds :
        /\ InRecvLoop(t) => RequestedLength(t) = Min(snap.len, ES_WIFI_PAYLOAD_SIZE)
        /\ At(t, "recv_eval") => task[t].usReceivedBytes <= Min(snap.len, ES_WIFI_PAYLOAD_SIZE)
        /\ (At(t, "idle") /\ task[t].op = "Recv" /\ task[t].xRetVal > 0)
              => /\ task[t].xRetVal <= ES_WIFI_PAYLOAD_SIZE
                 /\ task[t].xRetVal <= snap.len

\* C12 happens: a Sockets_Recv given a buffer too long for 16 bits has returned
\* ES_WIFI_PAYLOAD_SIZE bytes.
C12_Witness ==
    \E t \in TaskIds :
        /\ At(t, "idle")
        /\ task[t].op = "Recv"
        /\ snap.len > 65535
        /\ task[t].xRetVal = ES_WIFI_PAYLOAD_SIZE

(* ------------------------------------------------------------------ *)
(* SpecRace: NumTasks tasks opening, closing and disconnecting sockets  *)
(* concurrently, each holding as many as the table has                  *)
(* ------------------------------------------------------------------ *)
InitRace == Init

NextRace ==
    \/ \E t \in TaskIds : CallOpen(t) /\ Frame
    \/ \E t \in TaskIds : \E h \in CallerHandles(t) : CallClose(t, h) /\ Frame
    \/ \E t \in TaskIds : \E h \in CallerHandles(t) : CallDisconnect(t, h) /\ Frame
    \/ \E t \in TaskIds : GetFreeSocketTake(t) /\ Frame
    \/ \E t \in TaskIds : GetFreeSocketSkip(t) /\ Frame
    \/ \E t \in TaskIds : OpenInvalid(t) /\ Frame
    \/ \E t \in TaskIds : OpenValid(t) /\ Frame
    \/ \E t \in TaskIds : OpenInitSocket(t) /\ Frame
    \/ \E t \in TaskIds : CloseInvalid(t) /\ Frame
    \/ \E t \in TaskIds : CloseValid(t) /\ Frame
    \/ \E t \in TaskIds : CloseReturnSocket(t) /\ Frame
    \/ \E t \in TaskIds : DisconnectInvalid(t) /\ Frame
    \/ \E t \in TaskIds : DisconnectValid(t) /\ Frame
    \/ \E t \in TaskIds : DisconnectMarkClosed(t) /\ Frame
    \/ \E t \in TaskIds : DisconnectTake(t) /\ Frame
    \/ \E t \in TaskIds : DisconnectTakeFail(t) /\ Frame
    \/ \E t \in TaskIds : WIFI_CloseClientConnection(t) /\ Frame
    \/ \E t \in TaskIds : DisconnectGive(t) /\ Frame
    \/ \E t \in TaskIds : DisconnectReturnSocket(t) /\ Frame

SpecRace == InitRace /\ [][NextRace]_vars

\* Slots below index i that are free.
FreeBelow(i) == {j \in Slots : j < i /\ xSockets[j].ucInUse = 0}

\* C18 as stated: whenever prvGetFreeSocket marks slot i in use no slot below i is
\* free at that moment, and Sockets_Open returns SOCKETS_INVALID_SOCKET only when no
\* slot is free at the moment it returns, in every interleaving with Open, Close and
\* Disconnect calls of other tasks.
C18_FirstFreeIndexWins ==
    [][\A t \in TaskIds :
          /\ (At(t, "open_scan") /\ task'[t].pc = "open_valid"
                 /\ task'[t].ulSocketNumber \in Slots)
                => FreeBelow(task'[t].ulSocketNumber) = {}
          /\ (At(t, "open_valid") /\ task'[t].pc = "idle"
                 /\ task'[t].xRetVal = SOCKETS_INVALID_SOCKET)
                => FreeBelow(wificonfigMAX_SOCKETS) = {}]_vars

\* C18, amended: prvGetFreeSocket examines the slots in ascending order from index
\* 0, one critical section per slot. It marks slot i in use and returns i exactly when
\* slot i is free at the moment it is examined, having passed each lower slot at a
\* moment when that slot was in use; it returns SOCKETS_INVALID_SOCKET only after it
\* has passed every slot in this way. A slot that another task frees after the scan
\* has passed it is not looked at again.
C18_FirstFreeWhenExamined ==
    [][\A t \in TaskIds :
          LET i == task[t].ulIndex IN
          /\ (At(t, "idle") /\ task'[t].pc = "open_scan") => task'[t].ulIndex = 0
          /\ (At(t, "open_scan") /\ task'[t] # task[t])
                => IF xSockets[i].ucInUse = 0
                     THEN /\ xSockets' = [xSockets EXCEPT ![i].ucInUse = 1]
                          /\ task'[t].pc = "open_valid"
                          /\ task'[t].ulSocketNumber = i
                     ELSE /\ xSockets' = xSockets
                          /\ IF i + 1 < wificonfigMAX_SOCKETS
                               THEN /\ task'[t].pc = "open_scan"
                                    /\ task'[t].ulIndex = i + 1
                               ELSE /\ task'[t].pc = "open_valid"
                                    /\ task'[t].ulSocketNumber = SOCKETS_INVALID_SOCKET
          /\ (task[t].op = "Open" /\ ~At(t, "idle") /\ task'[t].pc = "idle")
                => task'[t].xRetVal = task[t].ulSocketNumber]_vars

\* C18 happens: a scan has passed every slot and is about to return
\* SOCKETS_INVALID_SOCKET while a slot, freed behind it, is free.
C18_Witness ==
    \E t \in TaskIds :
        /\ At(t, "open_valid")
        /\ task[t].ulSocketNumber = SOCKETS_INVALID_SOCKET
        /\ FreeBelow(wificonfigMAX_SOCKETS) # {}

(* ------------------------------------------------------------------ *)
(* Properties of Spec                                                   *)
(* ------------------------------------------------------------------ *)
\* Task t is inside a driver command other than the module reset.
InDriverCommand(t) ==
    task[t].pc \in {"gethost_call", "conn_call", "disc_call", "recv_call", "send_call"}

\* Task t is blocked in xSemaphoreTake.
WaitsForSemaphore(t) ==
    task[t].pc \in {"gethost_take", "conn_take", "disc_take", "recv_take", "send_take",
                    "reset_take"}

\* C1: every driver command other than the module reset (resolve, open connection,
\* close connection, send, receive poll) is issued by the task holding the WiFi
\* semaphore, so no two such commands are in progress at the same time.
C1_DriverCommandsHoldSemaphore ==
    /\ \A t \in TaskIds : InDriverCommand(t) => xWifiSemaphoreHandle = t
    /\ \A t1, t2 \in TaskIds : InDriverCommand(t1) /\ InDriverCommand(t2) => t1 = t2

\* C1 happens: one task is inside a driver command while another waits for the semaphore.
C1_Witness ==
    \E t1, t2 \in TaskIds :
        /\ t1 # t2
        /\ InDriverCommand(t1)
        /\ WaitsForSemaphore(t2)

\* C4: no two tasks own the same handle at the same time, a task owning h from the
\* return of its Open that yielded h until its own Close or Disconnect of h.
C4_NoSharedHandle ==
    \A t1, t2 \in TaskIds : t1 # t2 => owned[t1] \cap owned[t2] = {}

\* Task t's step is the end of a Sockets_Recv that returns 0 and leaves the table alone.
RecvReturnsZero(t) ==
    /\ task'[t].pc = "idle"
    /\ task'[t].op = "Recv"
    /\ task'[t].xRetVal = 0
    /\ xSockets' = xSockets

\* C7: a timeout never leaves Sockets_Recv as an error or a reset. When the semaphore
\* is not obtained the call returns 0 at once, with no further poll; when the last
\* poll timed out or gave no bytes and the receive timeout has expired it returns 0;
\* in both cases no reset is issued and the socket table is unchanged.
C7_RecvTimeoutReturnsZero ==
    [][\A t \in TaskIds :
          /\ (At(t, "recv_take") /\ task'[t] # task[t])
                => \/ task'[t].pc = "recv_call" /\ xWifiSemaphoreHandle' = t
                   \/ RecvReturnsZero(t)
          /\ (At(t, "recv_eval") /\ PollGaveNothing(t) /\ task'[t] # task[t])
                => \/ task'[t].pc = "recv_delay"
                   \/ RecvReturnsZero(t)]_vars

\* C7 happens: a Sockets_Recv has returned 0 while sockets were open.
C7_Witness ==
    \E t \in TaskIds :
        /\ task[t].pc = "idle"
        /\ task[t].op = "Recv"
        /\ task[t].xRetVal = 0
        /\ \E i \in Slots : xSockets[i].ucInUse = 1

\* C9: when WIFI_ResetModule fails after a driver error in Send or Recv, the call
\* returns SOCKETS_SOCKET_ERROR (never SOCKETS_PERIPHERAL_RESET), does not take the
\* semaphore again, and leaves every slot as it was.
C9_FailedResetKeepsTable ==
    [][\A t \in TaskIds : \A st \in DriverStatuses \ {WIFI_STATUS_OK} :
          WIFI_ResetModule(t, st)
            => /\ task'[t].pc = "idle"
               /\ task'[t].xRetVal = SOCKETS_SOCKET_ERROR
               /\ xSockets' = xSockets
               /\ xWifiSemaphoreHandle' = xWifiSemaphoreHandle]_vars

\* C9 happens: a Sockets_Recv has returned the socket error (which it does only
\* after a failed reset) with a socket still in use.
C9_Witness ==
    \E t \in TaskIds :
        /\ task[t].pc = "idle"
        /\ task[t].op = "Recv"
        /\ task[t].xRetVal = SOCKETS_SOCKET_ERROR
        /\ \E i \in Slots : xSockets[i].ucInUse = 1

\* Task t's call has read or written the slot of its handle, or issued a driver
\* command for it.
TouchedSlotOrDriver(t) ==
    task[t].pc \in {"close_return",
                    "gethost_take", "gethost_call", "gethost_give", "conn_take",
                    "conn_call", "conn_flag", "conn_give",
                    "disc_rc", "disc_take", "disc_call", "disc_give", "disc_return",
                    "recv_take", "recv_call", "recv_eval", "recv_delay",
                    "send_call", "send_give",
                    "opt_switch"}

\* C10: an operation that takes a handle reads or writes slot state, or issues a
\* driver command for the handle, only after the handle passed the validity check;
\* a call with an out-of-range handle touches no slot and issues no driver command.
C10_HandleCheckedBeforeUse ==
    \A t \in TaskIds : TouchedSlotOrDriver(t) => task[t].ulSocketNumber \in Slots

\* Task t's step is a return with value v.
ReturnsWith(t, v) == task'[t].pc = "idle" /\ task'[t].xRetVal = v

\* C13: Sockets_Connect returns SOCKETS_ERROR_NONE and sets IS_CONNECTED in the slot
\* exactly when the handle was valid, the lookup gave a nonzero address, the semaphore
\* was obtained and WIFI_OpenClientConnection returned WIFI_STATUS_OK. An invalid
\* handle gives SOCKETS_ENOMEM without taking the semaphore or calling the driver; a
\* failed lookup, a semaphore not obtained and a failed connection each give
\* SOCKETS_SOCKET_ERROR and leave the slot's flags as they were; the connection is
\* never started after a failed lookup.
C13_ConnectOutcome ==
    [][\A t \in TaskIds :
          LET i == task[t].ulSocketNumber
              Failed == /\ ReturnsWith(t, SOCKETS_SOCKET_ERROR)
                        /\ xSockets' = xSockets
          IN
          (task[t].op = "Connect" /\ task'[t] # task[t] /\ ~At(t, "idle"))
            => /\ At(t, "conn_valid")
                    => /\ xSockets' = xSockets
                       /\ xWifiSemaphoreHandle' = xWifiSemaphoreHandle
                       /\ IF prvIsValidSocket(i)
                            THEN task'[t].pc = "gethost_take"
                            ELSE ReturnsWith(t, SOCKETS_ENOMEM)
               /\ At(t, "gethost_take")
                    => \/ /\ task'[t].pc = "gethost_call"
                          /\ xWifiSemaphoreHandle = NoTask /\ xWifiSemaphoreHandle' = t
                       \/ /\ Failed
                          /\ xWifiSemaphoreHandle' = xWifiSemaphoreHandle
                          /\ xWifiSemaphoreHandle # t
               /\ At(t, "gethost_call")
                    => /\ task'[t].pc = "gethost_give"
                       /\ xWifiSemaphoreHandle = t
               /\ At(t, "gethost_give")
                    => /\ xWifiSemaphoreHandle' = NoTask
                       /\ IF task[t].ulIPAddres = 0
                            THEN Failed
                            ELSE task'[t].pc = "conn_take"
               /\ At(t, "conn_take")
                    => /\ task[t].ulIPAddres # 0
                       /\ \/ /\ task'[t].pc = "conn_call"
                             /\ xWifiSemaphoreHandle = NoTask /\ xWifiSemaphoreHandle' = t
                          \/ /\ Failed
                             /\ xWifiSemaphoreHandle' = xWifiSemaphoreHandle
                             /\ xWifiSemaphoreHandle # t
               /\ At(t, "conn_call")
                    => /\ task[t].ulIPAddres # 0
                       /\ xWifiSemaphoreHandle = t
                       /\ xSockets' = xSockets
                       /\ \A st \in DriverStatuses :
                             WIFI_OpenClientConnection(t, st)
                               => IF st = WIFI_STATUS_OK
                                    THEN /\ task'[t].pc = "conn_flag"
                                         /\ task'[t].xRetVal = SOCKETS_ERROR_NONE
                                    ELSE /\ task'[t].pc = "conn_give"
                                         /\ task'[t].xRetVal = SOCKETS_SOCKET_ERROR
               /\ At(t, "conn_flag")
                    => /\ task'[t].pc = "conn_give"
                       /\ task'[t].xRetVal = SOCKETS_ERROR_NONE
                       /\ xSockets' = [xSockets EXCEPT ![i].ulFlags =
                               @ \cup {stsecuresocketsSOCKET_IS_CONNECTED_FLAG}]
               /\ At(t, "conn_give")
                    => /\ xWifiSemaphoreHandle = t /\ xWifiSemaphoreHandle' = NoTask
                       /\ xSockets' = xSockets
                       /\ ReturnsWith(t, task[t].xRetVal)
                       /\ task[t].xRetVal \in {SOCKETS_ERROR_NONE, SOCKETS_SOCKET_ERROR}
               /\ ReturnsWith(t, SOCKETS_ERROR_NONE) => At(t, "conn_give")
               /\ task'[t].pc = "conn_give" /\ task'[t].xRetVal = SOCKETS_ERROR_NONE
                    => At(t, "conn_flag")]_vars

\* C13 happens: one Sockets_Connect has returned SOCKETS_ERROR_NONE with its socket
\* marked connected, another has returned SOCKETS_SOCKET_ERROR with its socket not
\* marked connected.
C13_Witness ==
    \E t1, t2 \in TaskIds :
        /\ At(t1, "idle") /\ task[t1].op = "Connect"
        /\ task[t1].xRetVal = SOCKETS_ERROR_NONE
        /\ \E i \in owned[t1] :
              stsecuresocketsSOCKET_IS_CONNECTED_FLAG \in xSockets[i].ulFlags
        /\ At(t2, "idle") /\ task[t2].op = "Connect"
        /\ task[t2].xRetVal = SOCKETS_SOCKET_ERROR
        /\ \E i \in owned[t2] : xSockets[i].ulFlags = OpenInitialFlags

\* C14: Sockets_Disconnect on a valid handle first sets READ_CLOSED and WRITE_CLOSED
\* in the slot, then, only if it obtains the semaphore, calls
\* WIFI_CloseClientConnection while holding it, then marks the slot free. The call
\* returns only by marking the slot free, whatever the driver did and also when the
\* semaphore was not obtained, and no earlier step of the call marks the slot free.
C14_DisconnectOrder ==
    [][\A t \in TaskIds :
          LET i == task[t].ulSocketNumber IN
          (task[t].op = "Disconnect" /\ task'[t] # task[t] /\ ~At(t, "idle"))
            => /\ At(t, "disc_valid")
                    => /\ xSockets' = xSockets
                       /\ xWifiSemaphoreHandle' = xWifiSemaphoreHandle
                       /\ IF prvIsValidSocket(i)
                            THEN task'[t].pc = "disc_rc"
                            ELSE task'[t].pc = "idle"
               /\ At(t, "disc_rc")
                    => /\ task'[t].pc = "disc_take"
                       /\ xSockets' = [xSockets EXCEPT ![i].ulFlags = @ \cup ClosedFlags]
                       /\ xWifiSemaphoreHandle' = xWifiSemaphoreHandle
               /\ At(t, "disc_take")
                    => /\ xSockets' = xSockets
                       /\ \/ /\ task'[t].pc = "disc_call"
                             /\ xWifiSemaphoreHandle = NoTask /\ xWifiSemaphoreHandle' = t
                          \/ /\ task'[t].pc = "disc_return"
                             /\ xWifiSemaphoreHandle' = xWifiSemaphoreHandle
                             /\ xWifiSemaphoreHandle # t
               /\ At(t, "disc_call")
                    => /\ xWifiSemaphoreHandle = t /\ xWifiSemaphoreHandle' = t
                       /\ task'[t].pc = "disc_give"
                       /\ xSockets' = xSockets
               /\ At(t, "disc_give")
                    => /\ xWifiSemaphoreHandle = t /\ xWifiSemaphoreHandle' = NoTask
                       /\ task'[t].pc = "disc_return"
                       /\ xSockets' = xSockets
               /\ At(t, "disc_return")
                    => /\ xWifiSemaphoreHandle # t
                       /\ xWifiSemaphoreHandle' = xWifiSemaphoreHandle
                       /\ task'[t].pc = "idle"
                       /\ xSockets' = [xSockets EXCEPT ![i].ucInUse = 0]
                       /\ xSockets'[i].ucInUse = 0
               /\ task'[t].pc = "idle" => At(t, "disc_valid") \/ At(t, "disc_return")]_vars

\* C14 happens: a Sockets_Disconnect of a connected socket has returned, the slot free
\* and marked closed, while another task holds the semaphore for a driver command.
C14_Witness ==
    \E t1, t2 \in TaskIds :
        /\ At(t1, "idle") /\ task[t1].op = "Disconnect"
        /\ \E i \in Slots :
              /\ xSockets[i].ucInUse = 0
              /\ xSockets[i].ulFlags = {stsecuresocketsSOCKET_SECURE_FLAG,
                                         stsecuresocketsSOCKET_IS_CONNECTED_FLAG}
                                           \cup ClosedFlags
        /\ InDriverCommand(t2)

\* Task t is in the recovery code: from the call of WIFI_ResetModule to the
\* xSemaphoreGive after Sockets_Init.
InRecovery(t) == task[t].pc \in {"reset_call", "reset_take", "init_slot", "reset_give"}

\* C15: WIFI_ResetModule is called, and Sockets_Init is run, only by a Sockets_Send
\* or Sockets_Recv call whose own last WIFI_SendData or WIFI_ReceiveData returned
\* WIFI_STATUS_ERROR: never after a poll that timed out, never after a semaphore that
\* was not obtained (also when an earlier poll of the same call had timed out), and
\* never by Connect, Disconnect, Close, Open or SetSockOpt.
C15_ResetOnlyAfterDriverError ==
    [][\A t \in TaskIds :
          /\ InRecovery(t)
                => /\ task[t].op \in {"Send", "Recv"}
                   /\ task[t].xWiFiResult = WIFI_STATUS_ERROR
          /\ (InRecovery(t)' /\ ~InRecovery(t))
                => /\ task'[t].pc = "reset_call"
                   /\ At(t, "recv_eval") \/ At(t, "send_give")
                   /\ task[t].xWiFiResult = WIFI_STATUS_ERROR
          /\ (At(t, "recv_take") \/ (At(t, "recv_eval") /\ PollGaveNothing(t))
                 \/ At(t, "send_take"))
                => ~InRecovery(t)'
          /\ (task'[t] # task[t] /\ \E i \in Slots : /\ xSockets[i].ucInUse = 1
                                                       /\ xSockets'[i].ucInUse = 0)
                => At(t, "init_slot") \/ At(t, "close_return") \/ At(t, "disc_return")]_vars

\* C15 happens: one Sockets_Recv is reinitialising the table after a driver error
\* while another Sockets_Recv, whose last poll timed out, waits for the semaphore
\* the first one holds.
C15_Witness ==
    \E t1, t2 \in TaskIds :
        /\ At(t1, "init_slot") /\ task[t1].op = "Recv"
        /\ At(t2, "recv_take") /\ task[t2].xWiFiResult = WIFI_STATUS_TIMEOUT

\* Task t is between an xSemaphoreTake that returned pdTRUE and the xSemaphoreGive
\* that follows it in the same call.
HoldsInCall(t) ==
    task[t].pc \in {"gethost_call", "gethost_give", "conn_call", "conn_flag", "conn_give",
                    "disc_call", "disc_give", "recv_call", "recv_eval",
                    "send_call", "send_give", "init_slot", "reset_give"}

\* Task t is at an xSemaphoreGive.
AtGive(t) ==
    task[t].pc \in {"gethost_give", "conn_give", "disc_give", "recv_eval", "send_give",
                    "reset_give"}

\* C16: the semaphore obtained by Connect (for the lookup and for the connection),
\* Disconnect, Recv, Send and the recovery is given back within the same call on
\* every path: a task holds it exactly between a successful take and the give that
\* follows, so no operation returns holding it, no task takes it while holding it,
\* and no task gives a semaphore it does not hold.
C16_SemaphoreReleased ==
    \A t \in TaskIds :
        /\ xWifiSemaphoreHandle = t <=> HoldsInCall(t)
        /\ At(t, "idle") => xWifiSemaphoreHandle # t
        /\ WaitsForSemaphore(t) => xWifiSemaphoreHandle # t
        /\ AtGive(t) => xWifiSemaphoreHandle = t

\* C16 happens: a Connect whose connection failed is about to give the semaphore
\* while the other task waits for it in the recovery.
C16_Witness ==
    \E t1, t2 \in TaskIds :
        /\ At(t1, "conn_give") /\ task[t1].xRetVal = SOCKETS_SOCKET_ERROR
        /\ xWifiSemaphoreHandle = t1
        /\ At(t2, "reset_take")

\* Task t is at a statement that reads or writes the in-use bit or the flags of a slot.
AtTableAccess(t) ==
    task[t].pc \in {"open_scan", "open_valid", "open_flags", "close_valid", "close_return",
                    "conn_valid", "conn_flag", "disc_valid", "disc_rc", "disc_return",
                    "init_slot"}

\* Task t has applied a part of an update of the table: its Sockets_Init has
\* reinitialised some of the slots and not yet the others.
InPartialUpdate(t) == At(t, "init_slot") /\ task[t].ulIndex > 0

\* C17: every write of a slot's in-use bit or flags is inside a critical section of
\* the table, so that while one task has applied a part of an update (a table reset
\* that has reinitialised only some of the slots) no other task reads or writes the
\* table.
C17_TableUpdatesAtomic ==
    [][\A t1, t2 \in TaskIds :
          (t1 # t2 /\ InPartialUpdate(t1) /\ AtTableAccess(t2))
            => task'[t2] = task[t2]]_vars

(* ------------------------------------------------------------------ *)
(* SpecTerm: task 1 receives on slot 0, whose receive timeout is 0, a   *)
(* small value or the largest tick value, while task 2 sends on slot 1; *)
(* the driver reports every status to the receiver; ticks are counted   *)
(* in TickType_t and pass only while task 1 is blocked; a task inside a *)
(* call keeps running and the tick count keeps advancing                *)
(* ------------------------------------------------------------------ *)
\* A value converted to TickType_t.
TickType_t(x) == x % TickModulus

\* Receive timeouts of slot 0.
TermTimeouts == {0, MaxRecvTimeout, TickModulus - 1}

InitTerm ==
    /\ \E ulReceiveTimeout \in TermTimeouts :
          xSockets = [i \in Slots |->
                        IF i = 0
                          THEN [ucInUse |-> 1, ulFlags |-> OpenInitialFlags,
                                ulSendTimeout |-> socketsconfigDEFAULT_SEND_TIMEOUT,
                                ulReceiveTimeout |-> ulReceiveTimeout]
                        ELSE IF i = 1
                          THEN [ucInUse |-> 1, ulFlags |-> OpenInitialFlags,
                                ulSendTimeout |-> socketsconfigDEFAULT_SEND_TIMEOUT,
                                ulReceiveTimeout |-> socketsconfigDEFAULT_RECV_TIMEOUT]
                        ELSE InitSocket]
    /\ xWifiSemaphoreHandle = NoTask
    /\ task = [t \in {Receiver, Sender} |-> IdleTask]
    /\ owned = [t \in {Receiver, Sender} |-> IF t = Receiver THEN {0} ELSE {1}]
    /\ hist = <<>>
    /\ snap = [polls |-> 0]
    /\ NoTimeGhost

\* The block time of the receiver's xSemaphoreTake, line 391 computed in TickType_t.
\* (No timeout of TermTimeouts makes it portMAX_DELAY, TickModulus - 1.)
TermSemaphoreWait == TickType_t(task[Receiver].xSemaphoreWait)

\* The receiver is inside a blocking call whose block time has not run out, and it
\* is not waiting for a semaphore that is available.
TermCanWait ==
    \/ At(Receiver, "recv_take") /\ BlockedFor(TermSemaphoreWait)
                                 /\ ~SemaphoreAvailable(Receiver)
    \/ At(Receiver, "recv_call") /\ BlockedFor(stsecuresocketsONE_MILLISECOND)
    \/ At(Receiver, "recv_delay") /\ BlockedFor(stsecuresocketsFIVE_MILLISECONDS)

\* The tick interrupt; elapsed is xTaskGetTickCount() - xTimeOnEntering in TickType_t.
TermTick ==
    /\ TermCanWait
    /\ elapsed' = TickType_t(elapsed + 1)
    /\ waited' = waited + 1
    /\ UNCHANGED <<xSockets, xWifiSemaphoreHandle, task, owned, ghostSeq>>

\* WIFI_ReceiveData was called once more in the current Sockets_Recv.
TermPolled ==
    /\ snap' = [polls |-> Min(snap.polls + 1, MaxPolls)]
    /\ waited' = 0
    /\ UNCHANGED <<elapsed, hist>>

\* A tick, or a step of the receiver inside its call.
ReceiverRuns ==
    \/ TermTick
    \/ RecvTake(Receiver) /\ TimeUnblocked
    \/ RecvTakeFail(Receiver) /\ ~BlockedFor(TermSemaphoreWait) /\ TimeUnblocked
    \/ \E r \in DriverResults : WIFI_ReceiveData(Receiver, r[1], r[2]) /\ TermPolled
    \/ RecvData(Receiver) /\ TimeUnblocked
    \/ RecvPollTimeout(Receiver, elapsed) /\ TimeUnblocked
    \/ RecvError(Receiver) /\ TimeUnblocked
    \/ RecvDelay(Receiver) /\ ~BlockedFor(stsecuresocketsFIVE_MILLISECONDS) /\ TimeUnblocked
    \/ \E st \in DriverStatuses : WIFI_ResetModule(Receiver, st) /\ TimeIdle
    \/ ResetTake(Receiver) /\ TimeIdle
    \/ InitSlot(Receiver) /\ TimeIdle
    \/ ResetGive(Receiver) /\ TimeIdle

\* A step of the sender inside its call.
SenderRuns ==
    \/ SendTake(Sender) /\ TimeIdle
    \/ SendTakeFail(Sender) /\ TimeIdle
    \/ \E r \in SendResults : WIFI_SendData(Sender, r[1], r[2]) /\ TimeIdle
    \/ SendGive(Sender) /\ TimeIdle

NextTerm ==
    \/ /\ CallRecv(Receiver, 0, RecvLength)
       /\ elapsed' = 0 /\ waited' = 0 /\ snap' = [polls |-> 0] /\ UNCHANGED hist
    \/ CallSend(Sender, 1) /\ TimeIdle
    \/ ReceiverRuns
    \/ SenderRuns

SpecTerm ==
    /\ InitTerm
    /\ [][NextTerm]_vars
    /\ WF_vars(ReceiverRuns)
    /\ WF_vars(SenderRuns)

\* Task t is inside Sockets_Recv.
InRecv(t) == task[t].op = "Recv" /\ ~At(t, "idle")

NoWrapTimeouts ==
    {ulReceiveTimeout \in 0 .. (TickModulus - 1) :
        2 * ulReceiveTimeout + 2 * stsecuresocketsFIVE_MILLISECONDS
            + stsecuresocketsONE_MILLISECOND <= TickModulus}

\* The receive timeout of slot 0 is one of them.
NoWrap == xSockets[0].ulReceiveTimeout \in NoWrapTimeouts

\* The receiver has polled at most once, and not at all before its first take.
PolledOnce ==
    /\ snap.polls <= 1
    /\ At(Receiver, "recv_take") => snap.polls = 0

====
